---- MODULE Spec2Model ----
(***************************************************************************)
(* sqlyac: the statement parser (parseSQL), the variable interpolation     *)
(* (interpolateVariables) and the part of main that selects a statement.   *)
(* Text is a sequence of one-character strings; a file is the sequence of  *)
(* lines bufio.Scanner yields for it.                                      *)
(***************************************************************************)
EXTENDS Integers, Sequences, FiniteSets, TLC

VARIABLES
    file,             \* the lines scanner.Text() has yielded so far, in order
    queries,          \* []Query built so far
    currentQuery,     \* *Query: <<>> is nil, <<q>> points at q
    sqlLines,         \* []string of the block being accumulated
    variables,        \* map[string]string
    queryName,        \* the name requested on the command line
    sql,              \* the text handed to interpolateVariables
    interpolatedSQL,  \* its result
    stderr,           \* lines written to standard error by main
    pc,               \* position in main / parseSQL
    err,              \* the error parseSQL returns, "nil" for none
    configFile,       \* ~/.sqlyac/config.json as read: <<>> is no file
    config,           \* *Config used by main: <<>> until it is set
    confirm,          \* the --confirm flag
    stdin,            \* the line typed at the prompt: <<>> until it is read
    response,         \* the word confirmQuery has read: <<>> until it has read
    stdout            \* the texts written to standard output, in order

\* the variables of the confirmation gate of main
gateVars == <<configFile, config, confirm, stdin, response, stdout>>

vars == <<file, queries, currentQuery, sqlLines, variables, queryName,
          sql, interpolatedSQL, stderr, pc, err, gateVars>>

\* before main has loaded the configuration, asked or printed anything
GateInit ==
    /\ configFile = <<>>
    /\ config = <<>>
    /\ confirm = FALSE
    /\ stdin = <<>>
    /\ response = <<>>
    /\ stdout = <<>>

-----------------------------------------------------------------------------
(* Bounds *)

MaxLines == 4
MaxBlockLines == 7
MaxText == 5
MaxVarLines == 6
MaxSetLines == 2
MaxMainLines == 4
MaxTokens == 3
MaxKindLines == 4
MaxEmptyLines == 5

-----------------------------------------------------------------------------
(* Characters, and the Go library functions the program calls *)

\* \w of Go's regexp: [0-9A-Za-z_]
WordChars ==
    { <<"a", "b", "c", "d", "e", "f", "g", "h", "i", "j", "k", "l", "m", "n", "o", "p", "q", "r", "s", "t", "u", "v", "w", "x", "y", "z", "A", "B", "C", "D", "E", "F", "G", "H", "I", "J", "K", "L", "M", "N", "O", "P", "Q", "R", "S", "T", "U", "V", "W", "X", "Y", "Z", "0", "1", "2", "3", "4", "5", "6", "7", "8", "9", "_">>[i] : i \in 1..63 }

\* \s of Go's regexp: [\t\n\f\r ]
RegexSpace == {" ", "\t", "\n", "\f", "\r"}

\* the vertical tab, which strings.TrimSpace removes and \s does not match
VT == "<VT>"

\* unicode.IsSpace, restricted to the characters of the model
UnicodeSpace == RegexSpace \cup {VT}

RECURSIVE TrimLeft(_)
TrimLeft(s) ==
    IF s = <<>> THEN s
    ELSE IF Head(s) \in UnicodeSpace THEN TrimLeft(Tail(s)) ELSE s

RECURSIVE TrimRight(_)
TrimRight(s) ==
    IF s = <<>> THEN s
    ELSE IF s[Len(s)] \in UnicodeSpace THEN TrimRight(SubSeq(s, 1, Len(s) - 1)) ELSE s

\* strings.TrimSpace
TrimSpace(s) == TrimRight(TrimLeft(s))

\* strings.Join
RECURSIVE Join(_, _)
Join(elems, sep) ==
    IF elems = <<>> THEN <<>>
    ELSE IF Len(elems) = 1 THEN elems[1]
    ELSE elems[1] \o sep \o Join(Tail(elems), sep)

\* strings.Split on a one-character separator
RECURSIVE Split(_, _)
Split(s, sepChar) ==
    LET I == {i \in 1..Len(s) : s[i] = sepChar} IN
    IF I = {} THEN <<s>>
    ELSE LET i == CHOOSE k \in I : \A m \in I : k <= m
         IN <<SubSeq(s, 1, i - 1)>> \o Split(SubSeq(s, i + 1, Len(s)), sepChar)

\* strings.HasPrefix
HasPrefix(s, prefix) ==
    Len(s) >= Len(prefix) /\ SubSeq(s, 1, Len(prefix)) = prefix

\* the literal lit occurs in s starting at index i
LitAt(s, i, lit) ==
    i >= 1 /\ i + Len(lit) - 1 <= Len(s) /\ SubSeq(s, i, i + Len(lit) - 1) = lit

\* greedy run: the first index from i on whose character is outside class
\* (Len(s) + 1 when the run reaches the end of s)
RunEnd(s, i, class) ==
    CHOOSE j \in i..(Len(s) + 1) :
        /\ \A k \in i..(j - 1) : s[k] \in class
        /\ (j = Len(s) + 1 \/ s[j] \notin class)

MinOf(S) == CHOOSE x \in S : \A y \in S : x <= y
MaxOf(S) == CHOOSE x \in S : \A y \in S : x >= y

-----------------------------------------------------------------------------
(* The three regular expressions of parseSQL *)

\* nameRegexAt with a space required between @name and the identifier
nameRegexAt_needsSpace(s, i) ==
    LET b == RunEnd(s, i + 2, RegexSpace)
        d == RunEnd(s, b + 5, RegexSpace)
        e == RunEnd(s, d, WordChars)
    IN  IF LitAt(s, i, <<"-", "-">>) /\ LitAt(s, b, <<"@", "n", "a", "m", "e">>) /\ d > b + 5 /\ e > d
        THEN <<SubSeq(s, d, e - 1)>>
        ELSE <<>>

\* nameRegex = `--\s*@name\s*(\w+)` tried at start index i:
\* <<>> when it does not match there, else <<submatch 1>>
nameRegexAt(s, i) ==
    LET b == RunEnd(s, i + 2, RegexSpace)
        d == RunEnd(s, b + 5, RegexSpace)
        e == RunEnd(s, d, WordChars)
    IN  IF LitAt(s, i, <<"-", "-">>) /\ LitAt(s, b, <<"@", "n", "a", "m", "e">>) /\ e > d
        THEN <<SubSeq(s, d, e - 1)>>
        ELSE <<>>

\* the pattern looked for only where the text of the line begins
nameRegex_lineStart(s) ==
    IF TrimLeft(s) = <<>> THEN <<>> ELSE nameRegexAt(TrimLeft(s), 1)

\* nameRegex.FindStringSubmatch(s): the leftmost match, <<>> for nil
nameRegex(s) ==
    LET I == {i \in 1..Len(s) : nameRegexAt(s, i) # <<>>}
    IN  IF I = {} THEN <<>> ELSE nameRegexAt(s, MinOf(I))

\* the pattern without its end anchor, `^---+`
separatorRegex_prefix(s) ==
    Len(s) >= 3 /\ \A i \in 1..3 : s[i] = "-"

\* separatorRegex = `^---+$`, MatchString
separatorRegex(s) ==
    Len(s) >= 3 /\ \A i \in 1..Len(s) : s[i] = "-"

\* the end of the lazy group (.+?) that starts at p: the shortest non-empty
\* run that is followed by ";" or by the end of the text
LazyEnd(s, p) ==
    MinOf({q \in p..Len(s) : q = Len(s) \/ s[q + 1] = ";"})

\* variableRegex = `SET\s+@(\w+)\s*=\s*(.+?)(?:;|$)` tried at start index i:
\* <<>> when it does not match there, else <<submatch 1, submatch 2>>
variableRegexAt(s, i) ==
    LET b == RunEnd(s, i + 3, RegexSpace)
        d == RunEnd(s, b + 1, WordChars)
        e == RunEnd(s, d, RegexSpace)
        g == RunEnd(s, e + 1, RegexSpace)
        \* the greedy \s* gives characters back until (.+?) has one to take
        P == {p \in (e + 1)..g : p <= Len(s)}
    IN  IF /\ LitAt(s, i, <<"S", "E", "T">>) /\ b > i + 3
           /\ LitAt(s, b, <<"@">>) /\ d > b + 1
           /\ LitAt(s, e, <<"=">>) /\ P # {}
        THEN <<SubSeq(s, b + 1, d - 1), SubSeq(s, MaxOf(P), LazyEnd(s, MaxOf(P)))>>
        ELSE <<>>

\* the pattern tried at the start of the text only, as `^SET...` would be
variableRegex_anchored(s) == IF s = <<>> THEN <<>> ELSE variableRegexAt(s, 1)

\* variableRegex.FindStringSubmatch(s): the leftmost match, <<>> for nil
variableRegex(s) ==
    LET I == {i \in 1..Len(s) : variableRegexAt(s, i) # <<>>}
    IN  IF I = {} THEN <<>> ELSE variableRegexAt(s, MinOf(I))

-----------------------------------------------------------------------------
(* interpolateVariables *)

\* ReplaceMatch that returns nothing for a name that is not in the map
ReplaceMatch_dropsMissing(match, vs) ==
    LET varName == Tail(match)
    IN  IF varName \in DOMAIN vs THEN vs[varName] ELSE <<>>

\* the callback given to ReplaceAllStringFunc: match is "@" and a name
ReplaceMatch(match, vs) ==
    LET varName == Tail(match)
    IN  IF varName \in DOMAIN vs THEN vs[varName] ELSE match

\* variableRefRegex = `@(\w+)`, ReplaceAllStringFunc from index i on: each
\* leftmost non-overlapping match is replaced, the rest is copied
RECURSIVE ReplaceAllFrom(_, _, _)
ReplaceAllFrom(s, i, vs) ==
    IF i > Len(s) THEN <<>>
    ELSE IF s[i] = "@" /\ i < Len(s) /\ s[i + 1] \in WordChars
         THEN LET e == RunEnd(s, i + 1, WordChars)
              IN  ReplaceMatch(SubSeq(s, i, e - 1), vs) \o ReplaceAllFrom(s, e, vs)
         ELSE <<s[i]>> \o ReplaceAllFrom(s, i + 1, vs)

\* replacement in which a reference is the "@" and the longest defined name
\* that starts the run of word characters after it
RECURSIVE ReplacePrefixFrom(_, _, _)
ReplacePrefixFrom(s, i, vs) ==
    IF i > Len(s) THEN <<>>
    ELSE IF s[i] = "@" /\ i < Len(s) /\ s[i + 1] \in WordChars
         THEN LET e == RunEnd(s, i + 1, WordChars)
                  defined == {j \in (i + 1)..(e - 1) : SubSeq(s, i + 1, j) \in DOMAIN vs}
              IN  IF defined = {}
                  THEN SubSeq(s, i, e - 1) \o ReplacePrefixFrom(s, e, vs)
                  ELSE vs[SubSeq(s, i + 1, MaxOf(defined))]
                           \o ReplacePrefixFrom(s, MaxOf(defined) + 1, vs)
         ELSE <<s[i]>> \o ReplacePrefixFrom(s, i + 1, vs)

\* interpolateVariables with references cut at the longest defined name
interpolateVariables_definedPrefix(text, vs) == ReplacePrefixFrom(text, 1, vs)

\* interpolateVariables that replaces again in its own result
interpolateVariables_rescan(text, vs) ==
    ReplaceAllFrom(ReplaceAllFrom(text, 1, vs), 1, vs)

interpolateVariables(text, vs) == ReplaceAllFrom(text, 1, vs)

-----------------------------------------------------------------------------
(* parseSQL: one action per way the loop body handles a line *)

NewQuery == [Name |-> <<>>, SQL |-> <<>>]

\* SetVariable that keeps the value a name already has
SetVariable_keepsFirst(vs, varName, varValue) ==
    [k \in (DOMAIN vs) \cup {varName} |-> IF k \in DOMAIN vs THEN vs[k] ELSE varValue]

\* variables[varName] = varValue
SetVariable(vs, varName, varValue) ==
    [k \in (DOMAIN vs) \cup {varName} |-> IF k = varName THEN varValue ELSE vs[k]]

\* the lines of a block trimmed one by one before they are joined
BlockSQL_trimsLines(lines) ==
    TrimSpace(Join([i \in 1..Len(lines) |-> TrimSpace(lines[i])], <<"\n">>))

\* currentQuery.SQL = strings.TrimSpace(strings.Join(sqlLines, "\n"))
BlockSQL(lines) == TrimSpace(Join(lines, <<"\n">>))

\* SaveQuery without the test of the name
SaveQuery_keepsUnnamed(qs, cq, lines) ==
    IF cq # <<>>
    THEN Append(qs, [Name |-> cq[1].Name, SQL |-> BlockSQL(lines)])
    ELSE qs

\* SaveQuery that also wants the text of the block not to be empty
SaveQuery_dropsEmpty(qs, cq, lines) ==
    IF cq # <<>> /\ cq[1].Name # <<>> /\ BlockSQL(lines) # <<>>
    THEN Append(qs, [Name |-> cq[1].Name, SQL |-> BlockSQL(lines)])
    ELSE qs

\* if currentQuery != nil && currentQuery.Name != "" { ...; queries = append(queries, *currentQuery) }
SaveQuery(qs, cq, lines) ==
    IF cq # <<>> /\ cq[1].Name # <<>>
    THEN Append(qs, [Name |-> cq[1].Name, SQL |-> BlockSQL(lines)])
    ELSE qs

\* scanner.Scan() has returned true and scanner.Text() is line
Scanned(line) ==
    /\ pc = "scan"
    /\ file' = Append(file, line)

\* LineKind with the comment test made on the untrimmed line
LineKind_untrimmedComment(line) ==
    IF variableRegex(TrimSpace(line)) # <<>> THEN "variable"
    ELSE IF separatorRegex(TrimSpace(line)) THEN "separator"
    ELSE IF nameRegex(line) # <<>> THEN "name"
    ELSE IF HasPrefix(line, <<"-", "-">>) THEN "comment"
    ELSE "content"

\* LineKind with the @name test made before the variable test
LineKind_nameFirst(line) ==
    IF nameRegex(line) # <<>> THEN "name"
    ELSE IF variableRegex(TrimSpace(line)) # <<>> THEN "variable"
    ELSE IF separatorRegex(TrimSpace(line)) THEN "separator"
    ELSE IF HasPrefix(TrimSpace(line), <<"-", "-">>) THEN "comment"
    ELSE "content"

\* the loop body's chain of checks, each ending in continue: the first that
\* applies decides how the line is handled
LineKind(line) ==
    IF variableRegex(TrimSpace(line)) # <<>> THEN "variable"
    ELSE IF separatorRegex(TrimSpace(line)) THEN "separator"
    ELSE IF nameRegex(line) # <<>> THEN "name"
    ELSE IF HasPrefix(TrimSpace(line), <<"-", "-">>) THEN "comment"
    ELSE "content"

\* ScanVariable that also starts the accumulated lines afresh
ScanVariable_dropsLines(line) ==
    /\ Scanned(line)
    /\ LineKind(line) = "variable"
    /\ LET matches == variableRegex(TrimSpace(line))
       IN  variables' = SetVariable(variables, matches[1], TrimSpace(matches[2]))
    /\ sqlLines' = <<>>
    /\ UNCHANGED <<queries, currentQuery, queryName, sql, interpolatedSQL, stderr, pc>>
    /\ UNCHANGED <<err, gateVars>>

ScanVariable(line) ==
    /\ Scanned(line)
    /\ LineKind(line) = "variable"
    /\ LET matches == variableRegex(TrimSpace(line))
       IN  variables' = SetVariable(variables, matches[1], TrimSpace(matches[2]))
    /\ UNCHANGED <<queries, currentQuery, sqlLines, queryName, sql,
                   interpolatedSQL, stderr, pc>>
    /\ UNCHANGED <<err, gateVars>>

\* ScanSeparator that also empties the variable map, one map per block
ScanSeparator_clearsVariables(line) ==
    /\ Scanned(line)
    /\ LineKind(line) = "separator"
    /\ queries' = SaveQuery(queries, currentQuery, sqlLines)
    /\ currentQuery' = <<NewQuery>>
    /\ sqlLines' = <<>>
    /\ variables' = <<>>
    /\ UNCHANGED <<queryName, sql, interpolatedSQL, stderr, pc>>
    /\ UNCHANGED <<err, gateVars>>

\* ScanSeparator that starts the next block with the name of the last one
ScanSeparator_keepsName(line) ==
    /\ Scanned(line)
    /\ LineKind(line) = "separator"
    /\ queries' = SaveQuery(queries, currentQuery, sqlLines)
    /\ currentQuery' = IF currentQuery = <<>> THEN <<NewQuery>> ELSE currentQuery
    /\ sqlLines' = <<>>
    /\ UNCHANGED <<variables, queryName, sql, interpolatedSQL, stderr, pc>>
    /\ UNCHANGED <<err, gateVars>>

ScanSeparator(line) ==
    /\ Scanned(line)
    /\ LineKind(line) = "separator"
    /\ queries' = SaveQuery(queries, currentQuery, sqlLines)
    /\ currentQuery' = <<NewQuery>>
    /\ sqlLines' = <<>>
    /\ UNCHANGED <<variables, queryName, sql, interpolatedSQL, stderr, pc>>
    /\ UNCHANGED <<err, gateVars>>

\* ScanName that keeps the name a block already has
ScanName_keepsFirst(line) ==
    /\ Scanned(line)
    /\ LineKind(line) = "name"
    /\ currentQuery' = IF currentQuery # <<>> /\ currentQuery[1].Name = <<>>
                       THEN <<[currentQuery[1] EXCEPT !.Name = nameRegex(line)[1]]>>
                       ELSE currentQuery
    /\ UNCHANGED <<queries, sqlLines, variables, queryName, sql,
                   interpolatedSQL, stderr, pc>>
    /\ UNCHANGED <<err, gateVars>>

ScanName(line) ==
    /\ Scanned(line)
    /\ LineKind(line) = "name"
    /\ currentQuery' = IF currentQuery # <<>>
                       THEN <<[currentQuery[1] EXCEPT !.Name = nameRegex(line)[1]]>>
                       ELSE currentQuery
    /\ UNCHANGED <<queries, sqlLines, variables, queryName, sql,
                   interpolatedSQL, stderr, pc>>
    /\ UNCHANGED <<err, gateVars>>

ScanComment(line) ==
    /\ Scanned(line)
    /\ LineKind(line) = "comment"
    /\ UNCHANGED <<queries, currentQuery, sqlLines, variables, queryName,
                   sql, interpolatedSQL, stderr, pc>>
    /\ UNCHANGED <<err, gateVars>>

ScanContent(line) ==
    /\ Scanned(line)
    /\ LineKind(line) = "content"
    /\ sqlLines' = IF currentQuery # <<>> THEN Append(sqlLines, line) ELSE sqlLines
    /\ UNCHANGED <<queries, currentQuery, variables, queryName, sql,
                   interpolatedSQL, stderr, pc>>
    /\ UNCHANGED <<err, gateVars>>

\* ScanEOF without the save of the query still being accumulated
ScanEOF_dropsLast ==
    /\ pc = "scan"
    /\ pc' = "parsed"
    /\ UNCHANGED <<file, queries, currentQuery, sqlLines, variables, queryName,
                   sql, interpolatedSQL, stderr>>
    /\ UNCHANGED <<err, gateVars>>

\* ScanEOF that saves the joined lines without trimming them
ScanEOF_untrimmed ==
    /\ pc = "scan"
    /\ queries' = IF currentQuery # <<>> /\ currentQuery[1].Name # <<>>
                  THEN Append(queries, [Name |-> currentQuery[1].Name,
                                        SQL |-> Join(sqlLines, <<"\n">>)])
                  ELSE queries
    /\ pc' = "parsed"
    /\ UNCHANGED <<file, currentQuery, sqlLines, variables, queryName, sql,
                   interpolatedSQL, stderr>>
    /\ UNCHANGED <<err, gateVars>>

\* the loop has ended: the last query is saved and parseSQL returns
ScanEOF ==
    /\ pc = "scan"
    /\ queries' = SaveQuery(queries, currentQuery, sqlLines)
    /\ currentQuery' = IF currentQuery # <<>> /\ currentQuery[1].Name # <<>>
                       THEN <<[currentQuery[1] EXCEPT !.SQL = BlockSQL(sqlLines)]>>
                       ELSE currentQuery
    /\ pc' = "parsed"
    /\ UNCHANGED <<file, sqlLines, variables, queryName, sql,
                   interpolatedSQL, stderr>>
    /\ UNCHANGED <<err, gateVars>>

-----------------------------------------------------------------------------
(* parseSQL as a function of the lines of the file *)

\* the locals of parseSQL when the loop is entered
ScanStart ==
    [queries |-> <<>>, currentQuery |-> <<>>, sqlLines |-> <<>>, variables |-> <<>>]

\* one turn of the loop body on the locals st
LoopBody(st, line) ==
    LET kind == LineKind(line)
    IN  IF kind = "variable"
        THEN LET matches == variableRegex(TrimSpace(line))
             IN  [st EXCEPT !.variables =
                      SetVariable(st.variables, matches[1], TrimSpace(matches[2]))]
        ELSE IF kind = "separator"
        THEN [st EXCEPT !.queries = SaveQuery(st.queries, st.currentQuery, st.sqlLines),
                        !.currentQuery = <<NewQuery>>,
                        !.sqlLines = <<>>]
        ELSE IF kind = "name"
        THEN [st EXCEPT !.currentQuery =
                  IF st.currentQuery # <<>>
                  THEN <<[st.currentQuery[1] EXCEPT !.Name = nameRegex(line)[1]]>>
                  ELSE st.currentQuery]
        ELSE IF kind = "comment"
        THEN st
        ELSE [st EXCEPT !.sqlLines =
                  IF st.currentQuery # <<>> THEN Append(st.sqlLines, line)
                  ELSE st.sqlLines]

RECURSIVE ScanAll(_, _)
ScanAll(st, f) ==
    IF f = <<>> THEN st ELSE ScanAll(LoopBody(st, Head(f)), Tail(f))

\* what parseSQL returns for a file it reads to the end
parseSQL(f) ==
    LET st == ScanAll(ScanStart, f)
    IN  [queries |-> SaveQuery(st.queries, st.currentQuery, st.sqlLines),
         variables |-> st.variables]

-----------------------------------------------------------------------------
(* main, from the return of parseSQL to the interpolated text *)

\* the lookup that takes the last query of the name
FirstNamed_last(qs, name) ==
    LET I == {i \in 1..Len(qs) : qs[i].Name = name}
    IN  IF I = {} THEN 0 ELSE MaxOf(I)

\* for _, q := range queries { if q.Name == queryName {...; return} }
FirstNamed(qs, name) ==
    LET I == {i \in 1..Len(qs) : qs[i].Name = name}
    IN  IF I = {} THEN 0 ELSE MinOf(I)

\* queryName == "": the names are listed on standard error
MainList ==
    /\ pc = "parsed"
    /\ queryName' = <<>>
    /\ stderr' = <<<<"a", "v", "a", "i", "l", "a", "b", "l", "e", " ", "q", "u", "e", "r", "i", "e", "s", ":">>>> \o [i \in 1..Len(queries) |-> <<" ", " ">> \o queries[i].Name]
    /\ pc' = "exit0"
    /\ UNCHANGED <<file, queries, currentQuery, sqlLines, variables, sql,
                   interpolatedSQL>>
    /\ UNCHANGED <<err, gateVars>>

\* the requested query is found and its text interpolated
MainFound(name) ==
    /\ pc = "parsed"
    /\ name # <<>>
    /\ FirstNamed(queries, name) # 0
    /\ queryName' = name
    /\ sql' = queries[FirstNamed(queries, name)].SQL
    /\ interpolatedSQL' = interpolateVariables(sql', variables)
    /\ pc' = "interpolated"
    /\ UNCHANGED <<file, queries, currentQuery, sqlLines, variables, stderr>>
    /\ UNCHANGED <<err, gateVars>>

\* MainNotFound that returns from main as after a listing
MainNotFound_returns(name) ==
    /\ pc = "parsed"
    /\ name # <<>>
    /\ FirstNamed(queries, name) = 0
    /\ queryName' = name
    /\ stderr' = <<<<"e", "r", "r", "o", "r", ":", " ", "q", "u", "e", "r", "y", " ", "'">> \o name \o <<"'", " ", "n", "o", "t", " ", "f", "o", "u", "n", "d">>>>
    /\ pc' = "exit0"
    /\ UNCHANGED <<file, queries, currentQuery, sqlLines, variables, sql,
                   interpolatedSQL>>
    /\ UNCHANGED <<err, gateVars>>

\* no query has the requested name
MainNotFound(name) ==
    /\ pc = "parsed"
    /\ name # <<>>
    /\ FirstNamed(queries, name) = 0
    /\ queryName' = name
    /\ stderr' = <<<<"e", "r", "r", "o", "r", ":", " ", "q", "u", "e", "r", "y", " ", "'">> \o name \o <<"'", " ", "n", "o", "t", " ", "f", "o", "u", "n", "d">>>>
    /\ pc' = "exit1"
    /\ UNCHANGED <<file, queries, currentQuery, sqlLines, variables, sql,
                   interpolatedSQL>>
    /\ UNCHANGED <<err, gateVars>>


\* all sequences over S of length at most n
RECURSIVE SeqsUpTo(_, _)
SeqsUpTo(S, n) ==
    IF n = 0 THEN {<<>>}
    ELSE LET shorter == SeqsUpTo(S, n - 1)
         IN  shorter \cup {Append(t, x) : t \in {u \in shorter : Len(u) = n - 1}, x \in S}

\* the state when the scan loop of parseSQL is entered
Init ==
    /\ file = <<>>
    /\ queries = <<>>
    /\ currentQuery = <<>>
    /\ sqlLines = <<>>
    /\ variables = <<>>
    /\ queryName = <<>>
    /\ sql = <<>>
    /\ interpolatedSQL = <<>>
    /\ stderr = <<>>
    /\ pc = "scan"
    /\ err = "nil"
    /\ GateInit

-----------------------------------------------------------------------------
(* Spec: every file of at most MaxLines lines over Lines *)

Lines == {
    <<"-", "-", "-">>,
    <<"-", "-", " ", "@", "n", "a", "m", "e", " ", "F", "o", "o">>,
    <<"-", "-", " ", " ", " ", "@", "n", "a", "m", "e", " ", " ", " ", "F", "o", "o", " ", " ", " ">>,
    <<"-", "-", "@", "n", "a", "m", "e", "F", "o", "o">>,
    <<" ", "-", "-", " ", "D", "R", "O", "P", " ", "T", "A", "B", "L", "E", " ", "-", "-", "-">>,
    <<"S", "E", "L", "E", "C", "T", " ", "1", ";", " ", "-", "-", " ", "c">>,
    <<" ", " ", "x", "@", "v", " ">>,
    <<>>,
    <<"S", "E", "T", " ", "@", "v", " ", "=", " ", "1", ";">>,
    <<"a", ";", " ", "-", "-", " ", "@", "n", "a", "m", "e", " ", "B">>
}

Names == {<<"F", "o", "o">>, <<"Z", "z">>}

Next ==
    \/ \E line \in Lines : Len(file) < MaxLines /\ ScanVariable(line)
    \/ \E line \in Lines : Len(file) < MaxLines /\ ScanSeparator(line)
    \/ \E line \in Lines : Len(file) < MaxLines /\ ScanName(line)
    \/ \E line \in Lines : Len(file) < MaxLines /\ ScanComment(line)
    \/ \E line \in Lines : Len(file) < MaxLines /\ ScanContent(line)
    \/ ScanEOF
    \/ MainList
    \/ \E name \in Names : MainFound(name)
    \/ \E name \in Names : MainNotFound(name)

Spec == Init /\ [][Next]_vars

-----------------------------------------------------------------------------
(* Properties of parseSQL checked under Spec *)

Last(s) == s[Len(s)]

\* the index of the last separator line of f, 0 when it has none
LastSeparator(f) ==
    LET I == {i \in 1..Len(f) : LineKind(f[i]) = "separator"}
    IN  IF I = {} THEN 0 ELSE MaxOf(I)

\* the lines read since the last separator are a block opened by a separator
\* in which no line is handled as a @name annotation
UnnamedBlock(f) ==
    /\ LastSeparator(f) > 0
    /\ \A i \in (LastSeparator(f) + 1)..Len(f) : LineKind(f[i]) # "name"

C2_NamesAreWords ==
    \A i \in 1..Len(queries) :
        /\ queries[i].Name # <<>>
        /\ \A k \in 1..Len(queries[i].Name) : queries[i].Name[k] \in WordChars

C2_UnnamedBlockClosed ==
    (/\ pc = "scan"
     /\ Len(file') = Len(file) + 1
     /\ LineKind(Last(file')) = "separator"
     /\ UnnamedBlock(file))
    => queries' = queries

\* C2: every statement parseSQL returns has a non-empty name made of word
\* characters only, and the separator that closes a block with no @name
\* annotation adds no statement, whatever content the block holds.
C2_OnlyNamedBlocksBecomeStatements ==
    []C2_NamesAreWords /\ [][C2_UnnamedBlockClosed]_vars

\* an unnamed block with content was closed and added nothing; the named
\* block after it became the only statement
C2_Witness ==
    /\ pc = "parsed"
    /\ file = <<<<"-", "-", "-">>, <<"S", "E", "L", "E", "C", "T", " ", "1", ";", " ", "-", "-", " ", "c">>, <<"-", "-", "-">>, <<"-", "-", "@", "n", "a", "m", "e", "F", "o", "o">>>>
    /\ queries = <<[Name |-> <<"F", "o", "o">>, SQL |-> <<>>]>>

\* C3: no line of a returned statement's text is a comment line (trimmed
\* content starting with "--"), a @name annotation line, a separator line or
\* a variable-definition line.
C3_TextHasOnlyContentLines ==
    \A i \in 1..Len(queries) :
        LET textLines == Split(queries[i].SQL, "\n")
        IN  \A k \in 1..Len(textLines) :
                /\ ~HasPrefix(TrimSpace(textLines[k]), <<"-", "-">>)
                /\ nameRegex(textLines[k]) = <<>>
                /\ ~separatorRegex(TrimSpace(textLines[k]))
                /\ variableRegex(TrimSpace(textLines[k])) = <<>>

\* a block holding an indented comment with a keyword and dashes, a variable
\* definition and a content line yields a statement with the content line alone
C3_Witness ==
    /\ pc = "parsed"
    /\ \E i \in 1..Len(file) : file[i] = <<" ", "-", "-", " ", "D", "R", "O", "P", " ", "T", "A", "B", "L", "E", " ", "-", "-", "-">>
    /\ \E i \in 1..Len(file) : file[i] = <<"S", "E", "L", "E", "C", "T", " ", "1", ";", " ", "-", "-", " ", "c">>
    /\ queries = <<[Name |-> <<"F", "o", "o">>, SQL |-> <<"S", "E", "L", "E", "C", "T", " ", "1", ";", " ", "-", "-", " ", "c">>]>>

NameForms == {<<"-", "-", " ", "@", "n", "a", "m", "e", " ", "F", "o", "o">>, <<"-", "-", " ", " ", " ", "@", "n", "a", "m", "e", " ", " ", " ", "F", "o", "o", " ", " ", " ">>, <<"-", "-", "@", "n", "a", "m", "e", "F", "o", "o">>}

\* C10: each of the lines "-- @name Foo", "--   @name   Foo   " and
\* "--@nameFoo" gives the block it is read in the name Foo, and the statement
\* saved by a separator that follows it directly carries that name.
C10_NameWhitespaceInsensitive ==
    /\ (/\ pc = "scan" /\ file # <<>> /\ Last(file) \in NameForms
        /\ currentQuery # <<>>)
       => currentQuery[1].Name = <<"F", "o", "o">>
    /\ (/\ pc = "scan" /\ Len(file) >= 3 /\ Last(file) = <<"-", "-", "-">>
        /\ file[Len(file) - 1] \in NameForms
        /\ LastSeparator(SubSeq(file, 1, Len(file) - 2)) > 0)
       => (queries # <<>> /\ Last(queries).Name = <<"F", "o", "o">>)

\* a block named B is renamed Foo by the form without any space, and saved
C10_Witness ==
    /\ pc = "scan"
    /\ file = <<<<"-", "-", "-">>, <<"a", ";", " ", "-", "-", " ", "@", "n", "a", "m", "e", " ", "B">>, <<"-", "-", "@", "n", "a", "m", "e", "F", "o", "o">>, <<"-", "-", "-">>>>
    /\ queries = <<[Name |-> <<"F", "o", "o">>, SQL |-> <<>>]>>

-----------------------------------------------------------------------------
(* SpecBlocks: files made of annotated blocks, each opened by a separator *)

Delimiter == <<"-", "-", "-">>

BlockNames == {<<"A">>, <<"B">>}

Annotation(w) == <<"-", "-", " ", "@", "n", "a", "m", "e", " ">> \o w

BlockLines ==
    {Delimiter} \cup {Annotation(w) : w \in BlockNames}
        \cup {<<"S", "E", "L", "E", "C", "T", " ", "1", ";">>, <<"-", "-", " ", "c">>, <<"S", "E", "T", " ", "@", "v", " ", "=", " ", "1", ";">>}

IsAnnotation(line) == \E w \in BlockNames : line = Annotation(w)

\* the last line of the block that the delimiter at index i opens
BlockEnd(f, i) ==
    LET later == {k \in (i + 1)..Len(f) : f[k] = Delimiter}
    IN  IF later = {} THEN Len(f) ELSE MinOf(later) - 1

AnnotationsIn(f, i) == {k \in (i + 1)..BlockEnd(f, i) : IsAnnotation(f[k])}

\* f is a sequence of blocks, each opened by a delimiter line and holding
\* exactly one annotation; a closing delimiter may follow the last block
WellFormedBlocks(f) ==
    \/ f = <<>>
    \/ /\ f[1] = Delimiter
       /\ \A i \in {k \in 1..Len(f) : f[k] = Delimiter} :
            \/ Cardinality(AnnotationsIn(f, i)) = 1
            \/ i = Len(f)

\* f can be extended to a well-formed file
WellFormedPrefix(f) ==
    \/ f = <<>>
    \/ /\ f[1] = Delimiter
       /\ \A i \in {k \in 1..Len(f) : f[k] = Delimiter} :
            \/ Cardinality(AnnotationsIn(f, i)) = 1
            \/ BlockEnd(f, i) = Len(f) /\ AnnotationsIn(f, i) = {}

\* the annotated names of f, in file order
AnnotatedNames(f) ==
    LET idx == {k \in 1..Len(f) : IsAnnotation(f[k])}
        nth(j) == CHOOSE k \in idx : Cardinality({m \in idx : m < k}) = j - 1
    IN  [j \in 1..Cardinality(idx) |->
            CHOOSE w \in BlockNames : f[nth(j)] = Annotation(w)]

ReadBlockLine(line) ==
    /\ Len(file) < MaxBlockLines
    /\ WellFormedPrefix(Append(file, line))

NamesBlocks == {<<"A">>, <<"Z", "z">>}

NextBlocks ==
    \/ \E line \in BlockLines : ReadBlockLine(line) /\ ScanVariable(line)
    \/ \E line \in BlockLines : ReadBlockLine(line) /\ ScanSeparator(line)
    \/ \E line \in BlockLines : ReadBlockLine(line) /\ ScanName(line)
    \/ \E line \in BlockLines : ReadBlockLine(line) /\ ScanComment(line)
    \/ \E line \in BlockLines : ReadBlockLine(line) /\ ScanContent(line)
    \/ ScanEOF
    \/ MainList
    \/ \E name \in NamesBlocks : MainFound(name)
    \/ \E name \in NamesBlocks : MainNotFound(name)

SpecBlocks == Init /\ [][NextBlocks]_vars

\* C1: for a file made of N blocks, each opened by a delimiter line and
\* holding one "-- @name <word>" annotation, parseSQL returns exactly N
\* statements whose names are the annotated names in file order.
C1_OneStatementPerBlock ==
    (pc # "scan" /\ WellFormedBlocks(file))
    => [i \in 1..Len(queries) |-> queries[i].Name] = AnnotatedNames(file)

\* three blocks, the last one ended by the end of the file
C1_Witness ==
    /\ pc = "parsed"
    /\ file = <<<<"-", "-", "-">>, <<"-", "-", " ", "@", "n", "a", "m", "e", " ", "A">>, <<"-", "-", "-">>, <<"-", "-", " ", "@", "n", "a", "m", "e", " ", "B">>, <<"-", "-", "-">>, <<"-", "-", " ", "@", "n", "a", "m", "e", " ", "A">>>>
    /\ [i \in 1..Len(queries) |-> queries[i].Name] = <<<<"A">>, <<"B">>, <<"A">>>>

-----------------------------------------------------------------------------
(* SpecInterp: interpolateVariables applied to every text of at most MaxText
   characters and every map from VarNames to Values *)

TextChars == {"@", "x", "y", " "}

\* a statement's text has no surrounding whitespace
Texts == {t \in SeqsUpTo(TextChars, MaxText) : TrimSpace(t) = t}

VarNames == {<<"x">>, <<"y">>}

Values == {<<"1">>, <<"@", "y">>, <<"@", "x">>, <<"\"", "a", "\"">>}

Tables == UNION {[D -> Values] : D \in SUBSET VarNames}

InitInterp ==
    /\ file = <<>>
    /\ queries = <<>>
    /\ currentQuery = <<>>
    /\ sqlLines = <<>>
    /\ variables \in Tables
    /\ queryName = <<>>
    /\ sql \in Texts
    /\ interpolatedSQL = <<>>
    /\ stderr = <<>>
    /\ pc = "call"
    /\ err = "nil"
    /\ GateInit

\* interpolatedSQL, err := interpolateVariables(sql, variables)
Interpolate ==
    /\ pc = "call"
    /\ interpolatedSQL' = interpolateVariables(sql, variables)
    /\ pc' = "interpolated"
    /\ UNCHANGED <<file, queries, currentQuery, sqlLines, variables, queryName,
                   sql, stderr>>
    /\ UNCHANGED <<err, gateVars>>

NextInterp == Interpolate

SpecInterp == InitInterp /\ [][NextInterp]_vars

\* the references of t: the indices of an "@" followed by a word character
TokenStarts(t) == {i \in 1..(Len(t) - 1) : t[i] = "@" /\ t[i + 1] \in WordChars}

\* the last character of the reference that starts at i
TokenEnd(t, i) ==
    CHOOSE j \in (i + 1)..Len(t) :
        /\ \A k \in (i + 1)..j : t[k] \in WordChars
        /\ (j = Len(t) \/ t[j + 1] \notin WordChars)

TokenName(t, i) == SubSeq(t, i + 1, TokenEnd(t, i))

\* the references whose name is in the map
Resolved(t, vs) == {i \in TokenStarts(t) : TokenName(t, i) \in DOMAIN vs}

\* index p lies in a resolved reference, after its "@"
InsideResolved(t, vs, p) == \E i \in Resolved(t, vs) : i < p /\ p <= TokenEnd(t, i)

\* what index p of the text contributes to the length of the result
PieceLen(t, vs, p) ==
    IF p \in Resolved(t, vs) THEN Len(vs[TokenName(t, p)])
    ELSE IF InsideResolved(t, vs, p) THEN 0
    ELSE 1

\* where in the result the contribution of index p starts
RECURSIVE OutPos(_, _, _)
OutPos(t, vs, p) ==
    IF p = 1 THEN 1 ELSE OutPos(t, vs, p - 1) + PieceLen(t, vs, p - 1)

\* C4: every reference of the original text whose name is in the map is
\* replaced by the stored value verbatim, also when that value holds a
\* reference to a defined name (the inserted value is not scanned again).
C4_SinglePassReplacement ==
    pc = "interpolated" =>
        \A i \in Resolved(sql, variables) :
            LET v == variables[TokenName(sql, i)]
                at == OutPos(sql, variables, i)
            IN  /\ at + Len(v) - 1 <= Len(interpolatedSQL)
                /\ SubSeq(interpolatedSQL, at, at + Len(v) - 1) = v

\* @x is replaced by a value that names @y, which is defined and left literal
C4_Witness ==
    /\ pc = "interpolated"
    /\ sql = <<"@", "x", " ", "@", "y">>
    /\ variables = (<<"x">> :> <<"@", "y">>) @@ (<<"y">> :> <<"1">>)
    /\ interpolatedSQL = <<"@", "y", " ", "1">>

\* C5: every character outside a resolved reference is kept, in order, and
\* nothing else is added: an unresolved reference stays as written, and with
\* an empty map (or no resolved reference) the result equals the text.
C5_OnlyResolvedTokensChange ==
    pc = "interpolated" =>
        /\ Len(interpolatedSQL) = OutPos(sql, variables, Len(sql) + 1) - 1
        /\ \A p \in 1..Len(sql) :
            (p \notin Resolved(sql, variables) /\ ~InsideResolved(sql, variables, p))
            => interpolatedSQL[OutPos(sql, variables, p)] = sql[p]
        /\ (DOMAIN variables = {} => interpolatedSQL = sql)
        /\ (Resolved(sql, variables) = {} => interpolatedSQL = sql)

\* @y is not in the map and stays, @x is replaced
C5_Witness ==
    /\ pc = "interpolated"
    /\ sql = <<"@", "y", " ", "@", "x">>
    /\ variables = (<<"x">> :> <<"1">>)
    /\ interpolatedSQL = <<"@", "y", " ", "1">>

-----------------------------------------------------------------------------
(* SpecVars: files of at most MaxVarLines lines in which a definition of @x
   may stand anywhere; no line of VarFileLines is a comment line, so the
   comment step has no disjunct here *)

VarFileLines == {<<"-", "-", "-">>, <<"-", "-", " ", "@", "n", "a", "m", "e", " ", "Q">>, <<"-", "-", " ", "@", "n", "a", "m", "e", " ", "A">>, <<"S", "E", "L", "E", "C", "T", " ", "@", "x", ";">>, <<"S", "E", "T", " ", "@", "x", " ", "=", " ", "1", ";">>}

NamesVars == {<<"Q">>, <<"A">>, <<"Z", "z">>}

NextVars ==
    \/ \E line \in VarFileLines : Len(file) < MaxVarLines /\ ScanVariable(line)
    \/ \E line \in VarFileLines : Len(file) < MaxVarLines /\ ScanSeparator(line)
    \/ \E line \in VarFileLines : Len(file) < MaxVarLines /\ ScanName(line)
    \/ \E line \in VarFileLines : Len(file) < MaxVarLines /\ ScanContent(line)
    \/ ScanEOF
    \/ MainList
    \/ \E name \in NamesVars : MainFound(name)
    \/ \E name \in NamesVars : MainNotFound(name)

SpecVars == Init /\ [][NextVars]_vars

\* the lines of f that define a variable, with the name and value they define
Definitions(f) == {i \in 1..Len(f) : variableRegex(TrimSpace(f[i])) # <<>>}
DefinedName(f, i) == variableRegex(TrimSpace(f[i]))[1]
DefinedValue(f, i) == TrimSpace(variableRegex(TrimSpace(f[i]))[2])

\* one table for the whole of f: each defined name with the value of its
\* last definition
FileTable(f) ==
    [n \in {DefinedName(f, i) : i \in Definitions(f)} |->
        DefinedValue(f, MaxOf({i \in Definitions(f) : DefinedName(f, i) = n}))]

\* C8: the text main emits for the requested statement is that statement's
\* text interpolated with the definitions of the whole file, wherever they
\* stand: before the first separator, in another block, after its own block.
C8_DefinitionsApplyFromAnywhere ==
    pc = "interpolated" =>
        /\ sql = queries[FirstNamed(queries, queryName)].SQL
        /\ interpolatedSQL = interpolateVariables(sql, FileTable(file))

\* the only definition stands after the block of Q, inside the block of A
C8_Witness ==
    /\ pc = "interpolated"
    /\ file = <<<<"-", "-", "-">>, <<"-", "-", " ", "@", "n", "a", "m", "e", " ", "Q">>, <<"S", "E", "L", "E", "C", "T", " ", "@", "x", ";">>, <<"-", "-", "-">>, <<"-", "-", " ", "@", "n", "a", "m", "e", " ", "A">>, <<"S", "E", "T", " ", "@", "x", " ", "=", " ", "1", ";">>>>
    /\ queryName = <<"Q">>
    /\ interpolatedSQL = <<"S", "E", "L", "E", "C", "T", " ", "1", ";">>

C9_DefinitionStep ==
    (/\ pc = "scan"
     /\ Len(file') = Len(file) + 1
     /\ variableRegex(TrimSpace(Last(file'))) # <<>>)
    => /\ currentQuery' = currentQuery
       /\ sqlLines' = sqlLines
       /\ queries' = queries

C9_ContentAroundDefinition ==
    (/\ pc = "scan"
     /\ Len(file) >= 3
     /\ SubSeq(file, Len(file) - 2, Len(file)) = <<<<"S", "E", "L", "E", "C", "T", " ", "@", "x", ";">>, <<"S", "E", "T", " ", "@", "x", " ", "=", " ", "1", ";">>, <<"S", "E", "L", "E", "C", "T", " ", "@", "x", ";">>>>
     /\ currentQuery # <<>>)
    => /\ Len(sqlLines) >= 2
       /\ SubSeq(sqlLines, Len(sqlLines) - 1, Len(sqlLines)) = <<<<"S", "E", "L", "E", "C", "T", " ", "@", "x", ";">>, <<"S", "E", "L", "E", "C", "T", " ", "@", "x", ";">>>>

\* C9: reading a variable-definition line leaves the block being accumulated
\* as it was (its name, its content lines, the statements saved so far), so
\* the content lines before and after it belong to the same statement.
C9_DefinitionKeepsBlock ==
    [][C9_DefinitionStep]_vars /\ []C9_ContentAroundDefinition

\* one statement Q holding the content lines on both sides of the definition
C9_Witness ==
    /\ pc = "parsed"
    /\ file = <<<<"-", "-", "-">>, <<"-", "-", " ", "@", "n", "a", "m", "e", " ", "Q">>, <<"S", "E", "L", "E", "C", "T", " ", "@", "x", ";">>, <<"S", "E", "T", " ", "@", "x", " ", "=", " ", "1", ";">>, <<"S", "E", "L", "E", "C", "T", " ", "@", "x", ";">>>>
    /\ queries = <<[Name |-> <<"Q">>, SQL |-> <<"S", "E", "L", "E", "C", "T", " ", "@", "x", ";", "\n", "S", "E", "L", "E", "C", "T", " ", "@", "x", ";">>]>>

-----------------------------------------------------------------------------
(* SpecSet: files of at most MaxSetLines lines, most of them definitions of
   @s written in every combination of spacing, value and closing ";" *)

SetValues == {<<"1">>, <<"\"", "a", "c", "t", "i", "v", "e", "\"">>, <<"\"", "a", ";", "b", "\"">>}

Spacings == {<<>>, <<" ">>}

\* "SET @n = V": ws around "=", ws2 after the value, then ";" or nothing
SetLine(n, ws, v, ws2, semi) ==
    <<"S", "E", "T", " ", "@">> \o n \o ws \o <<"=">> \o ws \o v \o ws2 \o (IF semi THEN <<";">> ELSE <<>>)

SetLines ==
    {SetLine(<<"s">>, ws, v, ws2, semi) :
        ws \in Spacings, v \in SetValues, ws2 \in Spacings, semi \in BOOLEAN}

SetFileLines == SetLines \cup {<<"-", "-", "-">>, <<"-", "-", " ", "@", "n", "a", "m", "e", " ", "Q">>, <<"S", "E", "L", "E", "C", "T", " ", "@", "s", ";">>, <<"-", "-", " ", "c">>}

NamesSet == {<<"Q">>, <<"Z", "z">>}

NextSet ==
    \/ \E line \in SetFileLines : Len(file) < MaxSetLines /\ ScanVariable(line)
    \/ \E line \in SetFileLines : Len(file) < MaxSetLines /\ ScanSeparator(line)
    \/ \E line \in SetFileLines : Len(file) < MaxSetLines /\ ScanName(line)
    \/ \E line \in SetFileLines : Len(file) < MaxSetLines /\ ScanComment(line)
    \/ \E line \in SetFileLines : Len(file) < MaxSetLines /\ ScanContent(line)
    \/ ScanEOF
    \/ MainList
    \/ \E name \in NamesSet : MainFound(name)
    \/ \E name \in NamesSet : MainNotFound(name)

SpecSet == Init /\ [][NextSet]_vars

\* C6: once a line "SET @n = V", with or without a closing ";", has been
\* read, the table holds for n exactly the text V as written.
C6_ValueStoredAsWritten ==
    \A ws \in Spacings, v \in SetValues, ws2 \in Spacings, semi \in BOOLEAN :
        (pc = "scan" /\ file # <<>> /\ Last(file) = SetLine(<<"s">>, ws, v, ws2, semi))
        => (<<"s">> \in DOMAIN variables /\ variables[<<"s">>] = v)

\* C7: when parseSQL has returned, every name defined in the file has in the
\* table the value of its last definition in file order.
C7_LastDefinitionWins ==
    pc # "scan" =>
        \A i \in Definitions(file) :
            (\A j \in Definitions(file) : DefinedName(file, j) = DefinedName(file, i) => j <= i)
            => /\ DefinedName(file, i) \in DOMAIN variables
               /\ variables[DefinedName(file, i)] = DefinedValue(file, i)

\* @s is defined twice and the table holds the second value
C7_Witness ==
    /\ pc = "parsed"
    /\ file = <<<<"S", "E", "T", " ", "@", "s", " ", "=", " ", "1", ";">>, <<"S", "E", "T", " ", "@", "s", "=", "\"", "a", "c", "t", "i", "v", "e", "\"">>>>
    /\ variables = (<<"s">> :> <<"\"", "a", "c", "t", "i", "v", "e", "\"">>)


\* the lines of f from index a to index b that are handled as content
BlockContent(f, a, b) ==
    SelectSeq(SubSeq(f, a, b), LAMBDA l : LineKind(l) = "content")

\* text is what is left of joined once the whitespace at its two ends is
\* taken away: nothing inside it is added, removed or changed
IsTrimOf(text, joined) ==
    /\ text # <<>> => (text[1] \notin UnicodeSpace /\ Last(text) \notin UnicodeSpace)
    /\ \E k \in 0..(Len(joined) - Len(text)) :
          /\ \A i \in 1..k : joined[i] \in UnicodeSpace
          /\ SubSeq(joined, k + 1, k + Len(text)) = text
          /\ \A i \in (k + Len(text) + 1)..Len(joined) : joined[i] \in UnicodeSpace

\* the lines of f after its last separator hold a @name annotation
NamedBlock(f) == LastSeparator(f) > 0 /\ ~UnnamedBlock(f)

\* C11: the text of the statement saved for a named block is the block's
\* content lines, verbatim and in order, joined with newlines, with the
\* whitespace at the two ends of the joined text removed; it never begins or
\* ends with a whitespace character.
C11_TextIsTrimmedJoinOfContent ==
    /\ (/\ pc = "scan" /\ file # <<>> /\ LineKind(Last(file)) = "separator"
        /\ NamedBlock(SubSeq(file, 1, Len(file) - 1)))
       => (/\ queries # <<>>
           /\ IsTrimOf(Last(queries).SQL,
                       Join(BlockContent(file,
                                LastSeparator(SubSeq(file, 1, Len(file) - 1)) + 1,
                                Len(file) - 1), <<"\n">>)))
    /\ (pc # "scan" /\ NamedBlock(file))
       => (/\ queries # <<>>
           /\ IsTrimOf(Last(queries).SQL,
                       Join(BlockContent(file, LastSeparator(file) + 1, Len(file)),
                            <<"\n">>)))

\* a content line and an indented content line with a trailing space: the
\* trailing space is gone, the indentation of the second line is kept
C11_Witness ==
    /\ pc = "parsed"
    /\ file = <<<<"-", "-", "-">>, <<"-", "-", "@", "n", "a", "m", "e", "F", "o", "o">>, <<"S", "E", "L", "E", "C", "T", " ", "1", ";", " ", "-", "-", " ", "c">>, <<" ", " ", "x", "@", "v", " ">>>>
    /\ queries = <<[Name |-> <<"F", "o", "o">>, SQL |-> <<"S", "E", "L", "E", "C", "T", " ", "1", ";", " ", "-", "-", " ", "c", "\n", " ", " ", "x", "@", "v">>]>>

\* the indexes of the lines of f after its last separator that are handled
\* as @name annotations
AnnotationLines(f) ==
    {i \in (LastSeparator(f) + 1)..Len(f) : LineKind(f[i]) = "name"}

\* the step reads a separator line or ends the file
ClosesBlock ==
    /\ pc = "scan"
    /\ \/ pc' = "parsed"
       \/ Len(file') = Len(file) + 1 /\ LineKind(Last(file')) = "separator"

C12_SeveralAnnotationsClosed ==
    (/\ ClosesBlock
     /\ LastSeparator(file) > 0
     /\ Cardinality(AnnotationLines(file)) >= 2)
    => /\ Len(queries') = Len(queries) + 1
       /\ SubSeq(queries', 1, Len(queries)) = queries
       /\ Last(queries').Name = nameRegex(file[MaxOf(AnnotationLines(file))])[1]

\* C12: when a block opened by a separator holds several @name annotations,
\* closing it adds exactly one statement, and that statement carries the name
\* of the last annotation of the block.
C12_LastAnnotationWins == [][C12_SeveralAnnotationsClosed]_vars

\* a block annotated B and then Foo was closed and gave the one statement Foo
C12_Witness ==
    /\ pc = "scan"
    /\ file = <<<<"-", "-", "-">>, <<"a", ";", " ", "-", "-", " ", "@", "n", "a", "m", "e", " ", "B">>, <<"-", "-", " ", " ", " ", "@", "n", "a", "m", "e", " ", " ", " ", "F", "o", "o", " ", " ", " ">>, <<"-", "-", "-">>>>
    /\ queries = <<[Name |-> <<"F", "o", "o">>, SQL |-> <<>>]>>

\* the indexes of the separator lines of f
Separators(f) == {i \in 1..Len(f) : LineKind(f[i]) = "separator"}

\* the index of the separator that closes the block opened at s, or one past
\* the end of f when the block is still open
BlockClose(f, s) == MinOf({j \in Separators(f) : j > s} \cup {Len(f) + 1})

\* the @name annotation lines of the block opened at s
NamesIn(f, s) == {i \in (s + 1)..(BlockClose(f, s) - 1) : LineKind(f[i]) = "name"}

\* the separators of f that open a block with an annotation which a later
\* separator has closed, or the end of the file when it has been reached
StatementBlocks(f, ended) ==
    {s \in Separators(f) : NamesIn(f, s) # {} /\ (ended \/ BlockClose(f, s) <= Len(f))}

\* the j-th of them in file order
NthBlock(f, ended, j) ==
    CHOOSE s \in StatementBlocks(f, ended) :
        Cardinality({t \in StatementBlocks(f, ended) : t <= s}) = j

C13_SeparatorClears ==
    (pc = "scan" /\ file # <<>> /\ LineKind(Last(file)) = "separator")
    => (currentQuery = <<[Name |-> <<>>, SQL |-> <<>>]>> /\ sqlLines = <<>>)

C13_StatementsComeFromTheirBlock ==
    /\ Len(queries) = Cardinality(StatementBlocks(file, pc # "scan"))
    /\ \A j \in 1..Len(queries) :
          LET s == NthBlock(file, pc # "scan", j)
          IN  /\ queries[j].Name = nameRegex(file[MaxOf(NamesIn(file, s))])[1]
              /\ IsTrimOf(queries[j].SQL,
                          Join(BlockContent(file, s + 1, BlockClose(file, s) - 1),
                               <<"\n">>))

\* C13: a separator line leaves the parser with no name and no content; the
\* statements are, in file order, one per block that holds an annotation
\* between its opening separator and its close, each named by an annotation
\* of its own block and made of the content lines of its own block, so that
\* nothing read before the opening separator reaches a statement and
\* separators with no annotation between them add none.
C13_SeparatorResetsBlock == C13_SeparatorClears /\ C13_StatementsComeFromTheirBlock

\* after the block named Foo two more separators were read: one statement, and
\* neither the name nor any content is carried into the blocks that follow
C13_Witness ==
    /\ pc = "parsed"
    /\ file = <<<<"-", "-", "-">>, <<"-", "-", " ", "@", "n", "a", "m", "e", " ", "F", "o", "o">>, <<"-", "-", "-">>, <<"-", "-", "-">>>>
    /\ queries = <<[Name |-> <<"F", "o", "o">>, SQL |-> <<>>]>>
    /\ currentQuery = <<[Name |-> <<>>, SQL |-> <<>>]>>

DelimiterForms == {<<"-", "-", "-">>, <<"-", "-", "-", "-", "-">>, <<" ", " ", "-", "-", "-", " ", " ">>}

\* C14: the statements parseSQL returns for a file are the statements it
\* returns for the same file with one separator line appended; in particular
\* a named block still open at the end of the file is saved as a closing
\* separator would have saved it.
C14_EndOfFileClosesBlock ==
    pc = "parsed"
    => /\ queries = parseSQL(file).queries
       /\ \A d \in DelimiterForms : queries = parseSQL(Append(file, d)).queries

\* the file ends inside the named block Foo, whose last line has spaces at
\* both ends, and the block has become a statement
C14_Witness ==
    /\ pc = "parsed"
    /\ file = <<<<"-", "-", "-">>, <<"-", "-", " ", "@", "n", "a", "m", "e", " ", "F", "o", "o">>, <<"S", "E", "L", "E", "C", "T", " ", "1", ";", " ", "-", "-", " ", "c">>, <<" ", " ", "x", "@", "v", " ">>>>
    /\ queries = <<[Name |-> <<"F", "o", "o">>, SQL |-> <<"S", "E", "L", "E", "C", "T", " ", "1", ";", " ", "-", "-", " ", "c", "\n", " ", " ", "x", "@", "v">>]>>

\* the index of the first separator line of f, one past its end when it has none
FirstSeparator(f) == MinOf(Separators(f) \cup {Len(f) + 1})

\* the @name annotation lines of f before its first separator
LeadingNames(f) == {i \in 1..(FirstSeparator(f) - 1) : LineKind(f[i]) = "name"}

\* C15: a block that lies between the start of the file and the first
\* separator and holds a @name annotation yields, once a separator or the end
\* of the file has closed it, a first statement with the name of the
\* annotation whose text is the content lines of that block.
C15_LeadingBlockYieldsStatement ==
    (/\ LeadingNames(file) # {}
     /\ (pc # "scan" \/ FirstSeparator(file) <= Len(file)))
    => /\ queries # <<>>
       /\ queries[1].Name = nameRegex(file[MaxOf(LeadingNames(file))])[1]
       /\ IsTrimOf(queries[1].SQL,
                   Join(BlockContent(file, 1, FirstSeparator(file) - 1), <<"\n">>))
-----------------------------------------------------------------------------
(* The failure paths of parseSQL *)

\* os.Open(filename) has returned a file
OpenOK ==
    /\ pc = "open"
    /\ pc' = "scan"
    /\ UNCHANGED <<file, queries, currentQuery, sqlLines, variables, queryName,
                   sql, interpolatedSQL, stderr, err, gateVars>>

\* os.Open(filename) has returned an error: return nil, nil, err
OpenFails ==
    /\ pc = "open"
    /\ err' = "open"
    /\ pc' = "failed"
    /\ UNCHANGED <<file, queries, currentQuery, sqlLines, variables, queryName,
                   sql, interpolatedSQL, stderr, gateVars>>

\* what ends scanner.Scan() with an error: the read of the file fails, or the
\* next line does not fit the buffer of a bufio.Scanner (64 KiB), which is
\* bufio.ErrTooLong
ScanErrors == {"read", "token too long"}

\* scanner.Scan() has returned false with scanner.Err() = cause: the loop
\* ends, the query being accumulated is saved, and parseSQL returns
\* queries, variables, scanner.Err()
ScanFails(cause) ==
    /\ pc = "scan"
    /\ queries' = SaveQuery(queries, currentQuery, sqlLines)
    /\ currentQuery' = IF currentQuery # <<>> /\ currentQuery[1].Name # <<>>
                       THEN <<[currentQuery[1] EXCEPT !.SQL = BlockSQL(sqlLines)]>>
                       ELSE currentQuery
    /\ err' = cause
    /\ pc' = "failed"
    /\ UNCHANGED <<file, sqlLines, variables, queryName, sql, interpolatedSQL,
                   stderr, gateVars>>

\* if err != nil { "error parsing sql: ..."; os.Exit(1) }
MainParseError ==
    /\ pc = "failed"
    /\ stderr' = Append(stderr, <<"e", "r", "r", "o", "r", " ", "p", "a", "r", "s", "i", "n", "g", " ", "s", "q", "l", ":", " ">> \o <<err>>)
    /\ pc' = "exit1"
    /\ UNCHANGED <<file, queries, currentQuery, sqlLines, variables, queryName,
                   sql, interpolatedSQL, err, gateVars>>

-----------------------------------------------------------------------------
(* The configuration and the confirmation gate of main *)

UpperLetters == <<"A", "B", "C", "D", "E", "F", "G", "H", "I", "J", "K", "L", "M", "N", "O", "P", "Q", "R", "S", "T", "U", "V", "W", "X", "Y", "Z">>
LowerLetters == <<"a", "b", "c", "d", "e", "f", "g", "h", "i", "j", "k", "l", "m", "n", "o", "p", "q", "r", "s", "t", "u", "v", "w", "x", "y", "z">>

\* strings.ToLower, on the letters A to Z
ToLower(s) ==
    [i \in 1..Len(s) |->
        IF \E k \in 1..Len(UpperLetters) : UpperLetters[k] = s[i]
        THEN LowerLetters[CHOOSE k \in 1..Len(UpperLetters) : UpperLetters[k] = s[i]]
        ELSE s[i]]

\* strings.Contains
Contains(s, substr) == \E i \in 1..(Len(s) + 1) : LitAt(s, i, substr)

schemaKeywords == <<
    <<"d", "r", "o", "p", " ", "t", "a", "b", "l", "e">>, <<"d", "r", "o", "p", " ", "d", "a", "t", "a", "b", "a", "s", "e">>, <<"d", "r", "o", "p", " ", "s", "c", "h", "e", "m", "a">>,
    <<"a", "l", "t", "e", "r", " ", "t", "a", "b", "l", "e">>, <<"a", "l", "t", "e", "r", " ", "d", "a", "t", "a", "b", "a", "s", "e">>, <<"a", "l", "t", "e", "r", " ", "s", "c", "h", "e", "m", "a">>,
    <<"c", "r", "e", "a", "t", "e", " ", "t", "a", "b", "l", "e">>, <<"c", "r", "e", "a", "t", "e", " ", "d", "a", "t", "a", "b", "a", "s", "e">>, <<"c", "r", "e", "a", "t", "e", " ", "s", "c", "h", "e", "m", "a">>,
    <<"t", "r", "u", "n", "c", "a", "t", "e", " ", "t", "a", "b", "l", "e">>, <<"t", "r", "u", "n", "c", "a", "t", "e">> >>

\* containsSchemaChanges on the text as written, not lower-cased
containsSchemaChanges_caseSensitive(text) ==
    \E k \in 1..Len(schemaKeywords) : Contains(text, schemaKeywords[k])

containsSchemaChanges(text) ==
    \E k \in 1..Len(schemaKeywords) : Contains(ToLower(text), schemaKeywords[k])

updateKeywords == << <<"u", "p", "d", "a", "t", "e", " ">>, <<"d", "e", "l", "e", "t", "e", " ">>, <<"d", "e", "l", "e", "t", "e", " ", "f", "r", "o", "m">>, <<"i", "n", "s", "e", "r", "t">> >>

\* containsUpdates that looks for update and delete with no space after them
containsUpdates_noSpace(text) ==
    \E kw \in {<<"u", "p", "d", "a", "t", "e">>, <<"d", "e", "l", "e", "t", "e">>, <<"i", "n", "s", "e", "r", "t">>} : Contains(ToLower(text), kw)

containsUpdates(text) ==
    \E k \in 1..Len(updateKeywords) : Contains(ToLower(text), updateKeywords[k])

\* the json keys of the fields of Config
ConfigKeys == {"confirm", "confirm_schema_changes", "confirm_updates"}

\* var config Config; json.Unmarshal(data, &config): a field whose key is in
\* the object takes its value, any other field keeps the zero value false
Unmarshal(obj) ==
    [Confirm |-> IF "confirm" \in DOMAIN obj THEN obj["confirm"] ELSE FALSE,
     ConfirmSchemaChanges |-> IF "confirm_schema_changes" \in DOMAIN obj
                              THEN obj["confirm_schema_changes"] ELSE FALSE,
     ConfirmUpdates |-> IF "confirm_updates" \in DOMAIN obj
                        THEN obj["confirm_updates"] ELSE FALSE]

\* loadConfig on the configuration file cf: <<>> is no file (os.ReadFile
\* fails: nil, err); a file whose content is not a json object of booleans
\* makes json.Unmarshal return an error
loadConfig(cf) ==
    IF cf = <<>> THEN [config |-> <<>>, err |-> TRUE]
    ELSE IF ~cf[1].valid THEN [config |-> <<Unmarshal(<<>>)>>, err |-> TRUE]
    ELSE [config |-> <<Unmarshal(cf[1].object)>>, err |-> FALSE]

\* config, err := loadConfig(); if err != nil { config = &Config{false, true, true} }
MainConfig(cf) ==
    IF loadConfig(cf).err
    THEN [Confirm |-> FALSE, ConfirmSchemaChanges |-> TRUE, ConfirmUpdates |-> TRUE]
    ELSE loadConfig(cf).config[1]

\* needsConfirm with a conjunction in place of the first disjunction
NeedsConfirm_flagAndConfig(flag, cfg, text) ==
    \/ flag /\ cfg.Confirm
    \/ cfg.ConfirmSchemaChanges /\ containsSchemaChanges(text)
    \/ cfg.ConfirmUpdates /\ containsUpdates(text)

\* needsConfirm := confirm || config.Confirm || (... && ...) || (... && ...)
NeedsConfirm(flag, cfg, text) ==
    \/ flag
    \/ cfg.Confirm
    \/ cfg.ConfirmSchemaChanges /\ containsSchemaChanges(text)
    \/ cfg.ConfirmUpdates /\ containsUpdates(text)

\* the text handed to the two classifiers, taken before interpolation
ClassifiedText_raw == sql

\* the text handed to containsSchemaChanges and containsUpdates
ClassifiedText == interpolatedSQL

Digits == <<"0", "1", "2", "3", "4", "5", "6", "7", "8", "9">>

\* fmt.Sprintf("%d", n) for n >= 0
RECURSIVE Itoa(_)
Itoa(n) == IF n < 10 THEN <<Digits[n + 1]>> ELSE Itoa(n \div 10) \o <<Digits[(n % 10) + 1]>>

\* the number of lines confirmQuery shows
PreviewLines == 5

\* the preview confirmQuery builds from the text
Preview(text) ==
    LET lines == Split(text, "\n")
        shown == SubSeq(lines, 1, IF Len(lines) < PreviewLines THEN Len(lines) ELSE PreviewLines)
    IN  IF Len(lines) > PreviewLines
        THEN Join(shown, <<"\n">>) \o <<"\n", " ", "a", "n", "d", " ">> \o Itoa(Len(lines)) \o <<" ", "m", "o", "r", "e", " ", "l", "i", "n", "e", "s", ".", ".", ".">>
        ELSE Join(shown, <<"\n">>)

\* every answer is taken for yes but n and no
IsYes_unlessNo(r) == ToLower(TrimSpace(r)) \notin {<<"n">>, <<"n", "o">>}

\* response = strings.ToLower(strings.TrimSpace(response));
\* return response == "y" || response == "yes"
IsYes(r) == ToLower(TrimSpace(r)) \in {<<"y">>, <<"y", "e", "s">>}

\* the flag and the configuration are read when main starts and first used
\* here: no confirmation is needed and the text is printed
MainPrint(flag, cf) ==
    /\ pc = "interpolated"
    /\ confirm' = flag
    /\ configFile' = cf
    /\ config' = <<MainConfig(cf)>>
    /\ ~NeedsConfirm(flag, MainConfig(cf), ClassifiedText)
    /\ stdout' = Append(stdout, interpolatedSQL)
    /\ pc' = "exit0"
    /\ UNCHANGED <<file, queries, currentQuery, sqlLines, variables, queryName,
                   sql, interpolatedSQL, stderr, err, stdin, response>>

\* confirmation is needed: confirmQuery shows the query and waits for a word
MainPrompt(flag, cf) ==
    /\ pc = "interpolated"
    /\ confirm' = flag
    /\ configFile' = cf
    /\ config' = <<MainConfig(cf)>>
    /\ NeedsConfirm(flag, MainConfig(cf), ClassifiedText)
    /\ stderr' = stderr \o <<<<>>, <<"q", "u", "e", "r", "y", ":", " ">> \o queryName>>
                        \o Split(Preview(interpolatedSQL), "\n")
                        \o <<<<>>, <<"r", "u", "n", " ", "t", "h", "i", "s", " ", "q", "u", "e", "r", "y", "?", " ", "(", "y", "/", "n", ")", ":", " ">>>>
    /\ pc' = "prompt"
    /\ UNCHANGED <<file, queries, currentQuery, sqlLines, variables, queryName,
                   sql, interpolatedSQL, err, stdin, response, stdout>>

\* the characters fmt.Scanln skips before a word and that end a word
ScanSpace == {" ", "\t", "\r"}

\* var response string; fmt.Scanln(&response) on the typed line: the blanks
\* before the first word are skipped and the word is stored; what follows
\* the word makes Scanln return an error, which confirmQuery does not look
\* at; an empty line leaves the string empty
Scanln(line) ==
    LET start == RunEnd(line, 1, ScanSpace)
        end == CHOOSE j \in start..(Len(line) + 1) :
                   /\ \A k \in start..(j - 1) : line[k] \notin ScanSpace
                   /\ (j = Len(line) + 1 \/ line[j] \in ScanSpace)
    IN  SubSeq(line, start, end - 1)

\* the line typed at the prompt is read: the text is printed when the word
\* Scanln stores is y or yes, else "cancelled" and os.Exit(1)
MainAnswer(line) ==
    /\ pc = "prompt"
    /\ stdin' = <<line>>
    /\ response' = <<Scanln(line)>>
    /\ IF IsYes(Scanln(line))
       THEN /\ stdout' = Append(stdout, interpolatedSQL)
            /\ pc' = "exit0"
            /\ UNCHANGED stderr
       ELSE /\ stderr' = Append(stderr, <<"c", "a", "n", "c", "e", "l", "l", "e", "d">>)
            /\ pc' = "exit1"
            /\ UNCHANGED stdout
    /\ UNCHANGED <<file, queries, currentQuery, sqlLines, variables, queryName,
                   sql, interpolatedSQL, err, configFile, config, confirm>>

-----------------------------------------------------------------------------
(* SpecMain: a whole run of main on a file of at most MaxMainLines lines *)

MainLines == {
    <<"-", "-", "-">>,
    <<"-", "-", " ", "@", "n", "a", "m", "e", " ", "Q">>,
    <<"S", "E", "L", "E", "C", "T", " ", "@", "t", ";">>,
    <<"S", "E", "T", " ", "@", "t", "=", "D", "r", "o", "p", " ", "T", "a", "b", "l", "e", " ", "u">>,
    <<"D", "e", "l", "e", "t", "e", " ", "x", ";">>
}

NamesMain == {<<"Q">>, <<"Z", "z">>}

\* the configuration file: none, one that is not valid json, or an object
\* with any of the three keys, each true or false
ConfigFiles ==
    {<<>>, <<[valid |-> FALSE, object |-> <<>>]>>}
    \cup {<<[valid |-> TRUE, object |-> o]>> :
            o \in UNION {[K -> BOOLEAN] : K \in SUBSET ConfigKeys}}

\* the lines typed at the prompt, the empty one when nothing was typed
Answers == {<<"y">>, <<"Y">>, <<"y", "E", "s">>, <<"n">>, <<>>, <<"y", "e", "s", "!">>, <<" ", "y", "e", "s">>, <<"y", " ", "n", "o">>}

InitMain ==
    /\ file = <<>>
    /\ queries = <<>>
    /\ currentQuery = <<>>
    /\ sqlLines = <<>>
    /\ variables = <<>>
    /\ queryName = <<>>
    /\ sql = <<>>
    /\ interpolatedSQL = <<>>
    /\ stderr = <<>>
    /\ pc = "open"
    /\ err = "nil"
    /\ GateInit

NextMain ==
    \/ OpenOK
    \/ OpenFails
    \/ \E line \in MainLines : Len(file) < MaxMainLines /\ ScanVariable(line)
    \/ \E line \in MainLines : Len(file) < MaxMainLines /\ ScanSeparator(line)
    \/ \E line \in MainLines : Len(file) < MaxMainLines /\ ScanName(line)
    \/ \E line \in MainLines : Len(file) < MaxMainLines /\ ScanContent(line)
    \/ \E cause \in ScanErrors : ScanFails(cause)
    \/ ScanEOF
    \/ MainParseError
    \/ MainList
    \/ \E name \in NamesMain : MainFound(name)
    \/ \E name \in NamesMain : MainNotFound(name)
    \/ \E flag \in BOOLEAN, cf \in ConfigFiles : MainPrint(flag, cf)
    \/ \E flag \in BOOLEAN, cf \in ConfigFiles : MainPrompt(flag, cf)
    \/ \E line \in Answers : MainAnswer(line)

SpecMain == InitMain /\ [][NextMain]_vars
-----------------------------------------------------------------------------
(* Properties of main and parseSQL checked under SpecMain *)

\* C16: parseSQL returns an error exactly when the file cannot be opened or
\* read, and when it returns an error it returns no statement and no variable
\* along with it.
C16_ErrorIffUnreadable ==
    pc \in {"parsed", "failed"}
    => /\ err # "nil" <=> err \in {"open", "read"}
       /\ err # "nil" => (queries = <<>> /\ variables = <<>>)

\* main has passed the confirmation gate: it has asked, or printed unasked
GatePassed == config # <<>>

\* main has asked for confirmation
Asked == pc = "prompt" \/ stdin # <<>>

\* the condition under which a confirmation is required, on the flag, the
\* configuration in use and the interpolated text
Required ==
    \/ confirm
    \/ config[1].Confirm
    \/ config[1].ConfirmSchemaChanges /\ containsSchemaChanges(interpolatedSQL)
    \/ config[1].ConfirmUpdates /\ containsUpdates(interpolatedSQL)

\* C17: main asks for confirmation exactly when the --confirm flag is set, or
\* the confirm switch is on, or confirm_schema_changes is on and the text is
\* classified as a schema change, or confirm_updates is on and the text is
\* classified as a row mutation; with the flag set it asks whatever the
\* switches and the text are.
C17_ConfirmationExactlyWhenRequired ==
    GatePassed => /\ Asked <=> Required
                  /\ confirm => Asked

\* all three switches are off in the file, the text is harmless, and the
\* flag alone has made main ask
C17_Witness ==
    /\ pc = "prompt"
    /\ confirm
    /\ config = <<[Confirm |-> FALSE, ConfirmSchemaChanges |-> FALSE,
                   ConfirmUpdates |-> FALSE]>>
    /\ ~containsSchemaChanges(interpolatedSQL)
    /\ ~containsUpdates(interpolatedSQL)

\* the answer typed, less the blanks around it, is y or yes in any letter case
AnsweredYes == stdin # <<>> /\ ToLower(TrimSpace(stdin[1])) \in {<<"y">>, <<"y", "e", "s">>}

\* the first word of the answer typed is y or yes in any letter case
FirstWordYes ==
    /\ stdin # <<>>
    /\ \E i \in 1..Len(stdin[1]), j \in 1..Len(stdin[1]) :
          /\ \A k \in 1..(i - 1) : stdin[1][k] \in ScanSpace
          /\ \A k \in i..j : stdin[1][k] \notin ScanSpace
          /\ (j = Len(stdin[1]) \/ stdin[1][j + 1] \in ScanSpace)
          /\ ToLower(SubSeq(stdin[1], i, j)) \in {<<"y">>, <<"y", "e", "s">>}

\* C18, as claimed: when a confirmation is required the text is on standard
\* output only if the user has answered y or yes, in any letter case; after
\* any other answer standard output is empty and the run has ended with exit
\* status 1; the text is written at most once.
C18_PrintedOnlyAfterYesAnswer ==
    /\ Len(stdout) <= 1
    /\ (GatePassed /\ Required /\ stdout # <<>>) => AnsweredYes
    /\ (stdin # <<>> /\ ~AnsweredYes) => (stdout = <<>> /\ pc = "exit1")

C18_PrintedOnlyAfterYes ==
    /\ Len(stdout) <= 1
    /\ stdout # <<>> => stdout = <<interpolatedSQL>>
    /\ (GatePassed /\ Required /\ stdout # <<>>) => FirstWordYes
    /\ (stdin # <<>> /\ ~FirstWordYes) => (stdout = <<>> /\ pc = "exit1")

C18_PrintStep ==
    stdout' # stdout
    => /\ stdout = <<>>
       /\ pc' = "exit0"
       /\ pc = "prompt" \/ (pc = "interpolated" /\ ~Required')

\* C18, amended: when a confirmation is required the text reaches standard
\* output only in the step that reads an answer whose first word is y or
\* yes, in any letter case; an answer with any other first word, or with
\* none, leaves standard output empty and ends the run with exit status 1;
\* and the text is written at most once in a run.
C18_ConfirmationGatesOutput == []C18_PrintedOnlyAfterYes /\ [][C18_PrintStep]_vars

\* the answer yEs to a required confirmation has let the text through
C18_Witness ==
    /\ pc = "exit0"
    /\ stdin = <<<<"y", "E", "s">>>>
    /\ Required
    /\ stdout = <<interpolatedSQL>>

\* the defaults of the three switches
DefaultConfig ==
    [Confirm |-> FALSE, ConfirmSchemaChanges |-> TRUE, ConfirmUpdates |-> TRUE]

\* C19: with the default configuration and no flag, a statement whose raw
\* text holds no risk keyword and whose interpolated text is classified as a
\* schema change or a row mutation makes main ask for confirmation.
C19_DecisionOnInterpolatedText ==
    (/\ GatePassed
     /\ config = <<DefaultConfig>>
     /\ ~confirm
     /\ ~containsSchemaChanges(sql) /\ ~containsUpdates(sql)
     /\ containsSchemaChanges(interpolatedSQL) \/ containsUpdates(interpolatedSQL))
    => Asked

\* SELECT @t; has no keyword, the value of t brings in Drop Table, main asks
C19_Witness ==
    /\ pc = "prompt"
    /\ config = <<DefaultConfig>>
    /\ ~confirm
    /\ sql = <<"S", "E", "L", "E", "C", "T", " ", "@", "t", ";">>
    /\ interpolatedSQL = <<"S", "E", "L", "E", "C", "T", " ", "D", "r", "o", "p", " ", "T", "a", "b", "l", "e", " ", "u", ";">>

\* the configuration file is missing, or it is an object without the key
KeyAbsent(key) ==
    \/ configFile = <<>>
    \/ configFile[1].valid /\ key \notin DOMAIN configFile[1].object

\* C20: each switch the configuration file does not give takes its default,
\* false for confirm and true for confirm_schema_changes and confirm_updates,
\* both when there is no file and when the file lacks the key.
C20_AbsentSwitchTakesDefault ==
    GatePassed
    => /\ KeyAbsent("confirm") => config[1].Confirm = DefaultConfig.Confirm
       /\ KeyAbsent("confirm_schema_changes")
            => config[1].ConfirmSchemaChanges = DefaultConfig.ConfirmSchemaChanges
       /\ KeyAbsent("confirm_updates")
            => config[1].ConfirmUpdates = DefaultConfig.ConfirmUpdates
-----------------------------------------------------------------------------
(* SpecClassify: the confirmation gate of main on every interpolated text
   made of at most MaxTokens pieces of ClassTokens *)

ClassTokens == {
    <<"D", "r", "o", "p">>, <<"a", "l", "t", "e", "r">>, <<"T", "A", "B", "L", "E">>, <<"s", "c", "h", "e", "m", "a">>, <<"t", "r", "u", "n", "c", "a", "t", "e">>,
    <<"U", "p", "d", "a", "t", "e">>, <<"d", "e", "l", "e", "t", "e">>, <<"I", "N", "S", "E", "R", "T">>,
    <<" ">>, <<"\t">>, <<"-", "-">>, <<"'">>
}

\* the concatenations of at most n pieces
RECURSIVE Concats(_)
Concats(n) ==
    IF n = 0 THEN {<<>>}
    ELSE Concats(n - 1) \cup {t \o w : t \in Concats(n - 1), w \in ClassTokens}

\* the texts: the value of a variable has no surrounding whitespace and is
\* not empty
ClassTexts == {t \in Concats(MaxTokens) : t # <<>> /\ TrimSpace(t) = t}

\* main has parsed the file
\*     ---
\*     -- @name Q
\*     @v
\*     SET @v=<text>
\* and has interpolated the statement Q, whose text is the reference @v
InitClassify ==
    /\ \E t \in ClassTexts :
          /\ file = <<<<"-", "-", "-">>, <<"-", "-", " ", "@", "n", "a", "m", "e", " ", "Q">>, <<"@", "v">>, <<"S", "E", "T", " ", "@", "v", "=">> \o t>>
          /\ variables = (<<"v">> :> t)
          /\ interpolatedSQL = t
    /\ queries = <<[Name |-> <<"Q">>, SQL |-> <<"@", "v">>]>>
    /\ currentQuery = <<[Name |-> <<"Q">>, SQL |-> <<"@", "v">>]>>
    /\ sqlLines = <<<<"@", "v">>>>
    /\ queryName = <<"Q">>
    /\ sql = <<"@", "v">>
    /\ stderr = <<>>
    /\ pc = "interpolated"
    /\ err = "nil"
    /\ GateInit

\* configuration files that give the three switches, confirm being off
ClassConfigFiles ==
    {<<[valid |-> TRUE, object |-> o]>> :
        o \in {c \in [ConfigKeys -> BOOLEAN] : ~c["confirm"]}}

ClassAnswers == {<<"y">>, <<"n">>}

NextClassify ==
    \/ \E cf \in ClassConfigFiles : MainPrint(FALSE, cf)
    \/ \E cf \in ClassConfigFiles : MainPrompt(FALSE, cf)
    \/ \E line \in ClassAnswers : MainAnswer(line)

SpecClassify == InitClassify /\ [][NextClassify]_vars

\* t holds the string kw at some index
Holds(t, kw) ==
    \E i \in 1..Len(t) : i + Len(kw) - 1 <= Len(t) /\ SubSeq(t, i, i + Len(kw) - 1) = kw

\* the file of the initial state parses to the initial state
InitIsParsed ==
    /\ parseSQL(file).queries = queries
    /\ parseSQL(file).variables = variables
    /\ interpolateVariables(sql, variables) = interpolatedSQL

SchemaWords == {
    <<"d", "r", "o", "p", " ", "t", "a", "b", "l", "e">>, <<"d", "r", "o", "p", " ", "d", "a", "t", "a", "b", "a", "s", "e">>, <<"d", "r", "o", "p", " ", "s", "c", "h", "e", "m", "a">>,
    <<"a", "l", "t", "e", "r", " ", "t", "a", "b", "l", "e">>, <<"a", "l", "t", "e", "r", " ", "d", "a", "t", "a", "b", "a", "s", "e">>, <<"a", "l", "t", "e", "r", " ", "s", "c", "h", "e", "m", "a">>,
    <<"c", "r", "e", "a", "t", "e", " ", "t", "a", "b", "l", "e">>, <<"c", "r", "e", "a", "t", "e", " ", "d", "a", "t", "a", "b", "a", "s", "e">>, <<"c", "r", "e", "a", "t", "e", " ", "s", "c", "h", "e", "m", "a">>,
    <<"t", "r", "u", "n", "c", "a", "t", "e", " ", "t", "a", "b", "l", "e">>, <<"t", "r", "u", "n", "c", "a", "t", "e">> }

\* C21: with confirm_schema_changes as the only switch that is on, main asks
\* exactly for the texts whose lower-cased form holds one of the eleven
\* schema keywords, wherever in the text it stands (after a comment marker
\* or inside quotes as well) and in whatever letter case it is written.
C21_SchemaChangeIffKeyword ==
    (/\ GatePassed
     /\ ~confirm
     /\ config = <<[Confirm |-> FALSE, ConfirmSchemaChanges |-> TRUE,
                    ConfirmUpdates |-> FALSE]>>)
    => (Asked <=> \E kw \in SchemaWords : Holds(ToLower(interpolatedSQL), kw))

\* a keyword in mixed case, one inside quotes, one after a comment marker
C21_Witness ==
    /\ pc = "prompt"
    /\ config = <<[Confirm |-> FALSE, ConfirmSchemaChanges |-> TRUE,
                   ConfirmUpdates |-> FALSE]>>
    /\ interpolatedSQL \in {<<"D", "r", "o", "p", " ", "T", "A", "B", "L", "E">>, <<"'", "t", "r", "u", "n", "c", "a", "t", "e", "'">>, <<"-", "-", "t", "r", "u", "n", "c", "a", "t", "e">>}

UpdateWords == {<<"u", "p", "d", "a", "t", "e", " ">>, <<"d", "e", "l", "e", "t", "e", " ">>, <<"d", "e", "l", "e", "t", "e", " ", "f", "r", "o", "m">>, <<"i", "n", "s", "e", "r", "t">>}

\* C22: with confirm_updates as the only switch that is on, main asks
\* exactly for the texts whose lower-cased form holds "update " or "delete "
\* with the space, "delete from" or "insert", wherever in the text it stands
\* and in whatever letter case it is written.
C22_RowMutationIffKeyword ==
    (/\ GatePassed
     /\ ~confirm
     /\ config = <<[Confirm |-> FALSE, ConfirmSchemaChanges |-> FALSE,
                    ConfirmUpdates |-> TRUE]>>)
    => (Asked <=> \E kw \in UpdateWords : Holds(ToLower(interpolatedSQL), kw))

\* Update followed by a space, or INSERT after a comment marker
C22_Witness ==
    /\ pc = "prompt"
    /\ config = <<[Confirm |-> FALSE, ConfirmSchemaChanges |-> FALSE,
                   ConfirmUpdates |-> TRUE]>>
    /\ interpolatedSQL \in {<<"U", "p", "d", "a", "t", "e", " ", "'">>, <<"-", "-", "I", "N", "S", "E", "R", "T">>}

\* C23: with confirm_updates on, main asks for every text in which the word
\* update or delete, in any letter case, is followed by a whitespace
\* character, be it a space, a tab or a line break.
C23_UpdateOrDeleteIsGated ==
    (/\ GatePassed
     /\ config[1].ConfirmUpdates
     /\ \E kw \in {<<"u", "p", "d", "a", "t", "e">>, <<"d", "e", "l", "e", "t", "e">>}, ws \in RegexSpace :
            Holds(ToLower(interpolatedSQL), kw \o <<ws>>))
    => Asked
-----------------------------------------------------------------------------
(* Lookup by name, checked under SpecBlocks and SpecMain *)

\* C24: parseSQL returns one statement for every annotated block, also when
\* names repeat, in file order; and the statement main takes for a requested
\* name is the first of the sequence with exactly that name.
C24_FirstOfDuplicatesIsTaken ==
    /\ (pc # "scan" /\ WellFormedBlocks(file))
       => Len(queries) = Cardinality({k \in 1..Len(file) : IsAnnotation(file[k])})
    /\ pc = "interpolated"
       => \E i \in 1..Len(queries) :
             /\ queries[i].Name = queryName
             /\ \A j \in 1..(i - 1) : queries[j].Name # queryName
             /\ sql = queries[i].SQL

\* two statements named A: the first has a text, the second has none, and
\* the text taken is the one of the first
C24_Witness ==
    /\ pc = "interpolated"
    /\ queryName = <<"A">>
    /\ queries = <<[Name |-> <<"A">>, SQL |-> <<"S", "E", "L", "E", "C", "T", " ", "1", ";">>], [Name |-> <<"A">>, SQL |-> <<>>]>>
    /\ sql = <<"S", "E", "L", "E", "C", "T", " ", "1", ";">>

\* C25: when no parsed statement has the requested name the run ends with
\* exit status 1, nothing is written to standard output, and main neither
\* shows the query nor asks for a confirmation.
C25_UnknownNameFails ==
    (/\ queryName # <<>>
     /\ \A i \in 1..Len(queries) : queries[i].Name # queryName)
    => /\ pc = "exit1"
       /\ stdout = <<>>
       /\ ~Asked
       /\ \A k \in 1..Len(stderr) : ~Holds(stderr[k], <<"r", "u", "n", " ", "t", "h", "i", "s", " ", "q", "u", "e", "r", "y", "?">>)

\* the file has the statement Q and the name Zz is requested
C25_Witness ==
    /\ pc = "exit1"
    /\ queryName = <<"Z", "z">>
    /\ queries = <<[Name |-> <<"Q">>, SQL |-> <<"D", "e", "l", "e", "t", "e", " ", "x", ";">>]>>
    /\ stdout = <<>>
-----------------------------------------------------------------------------
(* The extent of a reference, checked under SpecInterp *)

\* a name that is not the whole run of word characters after the "@" at i,
\* only its beginning, is in the map
PrefixDefined(t, vs, i) ==
    \E j \in (i + 1)..(TokenEnd(t, i) - 1) : SubSeq(t, i + 1, j) \in DOMAIN vs

\* C26: the name of a reference is the whole run of word characters after
\* the "@": a reference whose whole name is not in the map is copied to the
\* result unchanged, also when a shorter beginning of that name is in the map.
C26_ReferenceIsMaximalRun ==
    pc = "interpolated" =>
        \A i \in TokenStarts(sql) :
            (TokenName(sql, i) \notin DOMAIN variables /\ PrefixDefined(sql, variables, i))
            => LET at == OutPos(sql, variables, i)
                   n == TokenEnd(sql, i) - i + 1
               IN  /\ at + n - 1 <= Len(interpolatedSQL)
                   /\ SubSeq(interpolatedSQL, at, at + n - 1) = SubSeq(sql, i, TokenEnd(sql, i))

\* x is defined, xy is not: @xy stays, and the @x after it is replaced
C26_Witness ==
    /\ pc = "interpolated"
    /\ sql = <<"@", "x", "y", "@", "x">>
    /\ variables = (<<"x">> :> <<"1">>)
    /\ interpolatedSQL = <<"@", "x", "y", "1">>
-----------------------------------------------------------------------------
(* SpecDelims: files of at most MaxKindLines lines over lines of dashes and
   lines that more than one pattern of the loop body matches *)

DelimLines == {
    <<"-", "-", "-">>,
    <<"-", "-", "-", "-", "-">>,
    <<" ", " ", "-", "-", "-", " ", " ">>,
    <<"-", "-">>,
    <<"-", "-", "-", " ", "x">>,
    <<"-", "-", " ", "@", "n", "a", "m", "e", " ", "Q">>,
    <<"S", "E", "L", "E", "C", "T", " ", "1", ";">>,
    <<"-", "-", " ", "@", "n", "a", "m", "e", " ", "B", " ", "S", "E", "T", " ", "@", "x", " ", "=", " ", "2">>
}

NamesDelims == {<<"Q">>, <<"B">>}

NextDelims ==
    \/ \E line \in DelimLines : Len(file) < MaxKindLines /\ ScanVariable(line)
    \/ \E line \in DelimLines : Len(file) < MaxKindLines /\ ScanSeparator(line)
    \/ \E line \in DelimLines : Len(file) < MaxKindLines /\ ScanName(line)
    \/ \E line \in DelimLines : Len(file) < MaxKindLines /\ ScanComment(line)
    \/ \E line \in DelimLines : Len(file) < MaxKindLines /\ ScanContent(line)
    \/ ScanEOF
    \/ MainList
    \/ \E name \in NamesDelims : MainFound(name)
    \/ \E name \in NamesDelims : MainNotFound(name)

SpecDelims == Init /\ [][NextDelims]_vars

\* the step reads one more line
ReadsLine == pc = "scan" /\ Len(file') = Len(file) + 1

\* what each rule does, and that the step does what the first rule that
\* matches the line does and nothing of the rules after it
C27_FirstRuleOnly ==
    ReadsLine =>
        LET l == Last(file')
            m == variableRegex(TrimSpace(l))
        IN  IF m # <<>>
            THEN /\ UNCHANGED <<queries, currentQuery, sqlLines>>
                 /\ m[1] \in DOMAIN variables'
                 /\ variables'[m[1]] = TrimSpace(m[2])
            ELSE IF Len(TrimSpace(l)) >= 3 /\ \A k \in 1..Len(TrimSpace(l)) : TrimSpace(l)[k] = "-"
            THEN /\ UNCHANGED variables
                 /\ currentQuery' = <<[Name |-> <<>>, SQL |-> <<>>]>>
                 /\ sqlLines' = <<>>
            ELSE IF nameRegex(l) # <<>>
            THEN /\ UNCHANGED <<queries, sqlLines, variables>>
                 /\ currentQuery # <<>> => currentQuery'[1].Name = nameRegex(l)[1]
            ELSE IF HasPrefix(TrimSpace(l), <<"-", "-">>)
            THEN UNCHANGED <<queries, currentQuery, sqlLines, variables>>
            ELSE /\ UNCHANGED <<queries, currentQuery, variables>>
                 /\ currentQuery # <<>> => sqlLines' = Append(sqlLines, l)

\* C27: every line is handled by one rule, the first that matches it in the
\* order variable definition, separator, @name annotation, comment, content:
\* a line that holds both a variable definition and a @name annotation sets
\* the variable and leaves the name of the block as it is, and a line of
\* three or more dashes ends the block although it starts with "--".
C27_FirstMatchingRuleDecides == [][C27_FirstRuleOnly]_vars

\* the block is still named Q after the line that holds "@name B" and a
\* definition of x, and x is defined
C27_Witness ==
    /\ pc = "scan"
    /\ file = <<<<"-", "-", "-">>, <<"-", "-", " ", "@", "n", "a", "m", "e", " ", "Q">>, <<"-", "-", " ", "@", "n", "a", "m", "e", " ", "B", " ", "S", "E", "T", " ", "@", "x", " ", "=", " ", "2">>>>
    /\ currentQuery = <<[Name |-> <<"Q">>, SQL |-> <<>>]>>
    /\ variables = (<<"x">> :> <<"2">>)

\* the line, less the whitespace around it, is three or more dashes
DashLine(l) ==
    /\ Len(TrimSpace(l)) >= 3
    /\ \A k \in 1..Len(TrimSpace(l)) : TrimSpace(l)[k] = "-"

C28_DelimiterStep ==
    ReadsLine =>
        LET l == Last(file')
        IN  /\ DashLine(l) =>
                /\ currentQuery' = <<[Name |-> <<>>, SQL |-> <<>>]>>
                /\ sqlLines' = <<>>
                /\ IF currentQuery # <<>> /\ currentQuery[1].Name # <<>>
                   THEN /\ Len(queries') = Len(queries) + 1
                        /\ Last(queries').Name = currentQuery[1].Name
                   ELSE queries' = queries
            /\ ~DashLine(l) =>
                /\ queries' = queries
                /\ Len(sqlLines') >= Len(sqlLines)
                /\ (currentQuery # <<>> /\ currentQuery[1].Name # <<>>)
                   => (currentQuery' # <<>> /\ currentQuery'[1].Name # <<>>)
            /\ l \in {<<"-", "-">>, <<"-", "-", "-", " ", "x">>} =>
                UNCHANGED <<queries, currentQuery, sqlLines, variables>>

\* C28: a line closes the block being read and opens a new one exactly when,
\* with the whitespace around it removed, it is made of three or more "-"
\* and nothing else; the lines "--" and "--- x" close nothing and change
\* nothing, as comment lines.
C28_DelimiterIffDashesOnly == [][C28_DelimiterStep]_vars

\* five dashes open the block, "--- x" and "--" leave it open and named, the
\* indented dashes followed by spaces close it
C28_Witness ==
    /\ pc = "scan"
    /\ file = <<<<"-", "-", "-", "-", "-">>, <<"-", "-", " ", "@", "n", "a", "m", "e", " ", "Q">>, <<"-", "-", "-", " ", "x">>, <<" ", " ", "-", "-", "-", " ", " ">>>>
    /\ queries = <<[Name |-> <<"Q">>, SQL |-> <<>>]>>
-----------------------------------------------------------------------------
(* SpecDefs: files of at most MaxKindLines lines over lines that hold a
   variable definition, whole, partial or after other text *)

DefLines == {
    <<"-", "-", "-">>,
    <<"-", "-", " ", "@", "n", "a", "m", "e", " ", "Q">>,
    <<"S", "E", "L", "E", "C", "T", " ", "@", "x", ";">>,
    <<"S", "E", "T", " ", "@", "x", " ", "=">>,
    <<"-", "-", " ", "S", "E", "T", " ", "@", "x", " ", "=", " ", "1">>,
    <<"U", "P", "D", "A", "T", "E", " ", "t", " ", "S", "E", "T", " ", "@", "x", " ", "=", " ", "1">>,
    <<"-", "-", " ", "c">>
}

NamesDefs == {<<"Q">>, <<"Z", "z">>}

NextDefs ==
    \/ \E line \in DefLines : Len(file) < MaxKindLines /\ ScanVariable(line)
    \/ \E line \in DefLines : Len(file) < MaxKindLines /\ ScanSeparator(line)
    \/ \E line \in DefLines : Len(file) < MaxKindLines /\ ScanName(line)
    \/ \E line \in DefLines : Len(file) < MaxKindLines /\ ScanComment(line)
    \/ \E line \in DefLines : Len(file) < MaxKindLines /\ ScanContent(line)
    \/ ScanEOF
    \/ MainList
    \/ \E name \in NamesDefs : MainFound(name)
    \/ \E name \in NamesDefs : MainNotFound(name)

SpecDefs == Init /\ [][NextDefs]_vars

\* the lines of the text of the statements in qs
TextLines(qs) ==
    UNION {{Split(qs[i].SQL, "\n")[k] : k \in 1..Len(Split(qs[i].SQL, "\n"))} :
              i \in 1..Len(qs)}

\* C29: a definition with no value, "SET @x =", is no error and is
\* discarded: parseSQL returns without error, the line gives x no entry in
\* the variable table, and the line is in the text of no statement.
C29_MalformedDefinitionDiscarded ==
    /\ err = "nil"
    /\ (\A i \in 1..Len(file) : file[i] \notin {<<"-", "-", " ", "S", "E", "T", " ", "@", "x", " ", "=", " ", "1">>, <<"U", "P", "D", "A", "T", "E", " ", "t", " ", "S", "E", "T", " ", "@", "x", " ", "=", " ", "1">>})
       => <<"x">> \notin DOMAIN variables
    /\ <<"S", "E", "T", " ", "@", "x", " ", "=">> \notin TextLines(queries)

\* the pattern matches the line, less the whitespace around it, somewhere
DefinitionInside(l) ==
    \E i \in 1..Len(TrimSpace(l)) : variableRegexAt(TrimSpace(l), i) # <<>>

\* the first place where it does
FirstDefinition(l) ==
    variableRegexAt(TrimSpace(l),
        MinOf({i \in 1..Len(TrimSpace(l)) : variableRegexAt(TrimSpace(l), i) # <<>>}))

C30_DefinitionStep ==
    (ReadsLine /\ DefinitionInside(Last(file')))
    => /\ FirstDefinition(Last(file'))[1] \in DOMAIN variables'
       /\ variables'[FirstDefinition(Last(file'))[1]]
              = TrimSpace(FirstDefinition(Last(file'))[2])
       /\ UNCHANGED <<queries, currentQuery, sqlLines>>

C30_DefinitionLinesLeftOut ==
    \A l \in TextLines(queries) : ~DefinitionInside(l)

-----------------------------------------------------------------------------
(* SpecInline: files of at most MaxKindLines lines over lines that hold SQL
   with a comment after it on the same line *)

InlineLines == {
    <<"-", "-", "-">>,
    <<"-", "-", " ", "@", "n", "a", "m", "e", " ", "Q">>,
    <<"S", "E", "L", "E", "C", "T", " ", "1", ";", " ", "-", "-", " ", "@", "n", "a", "m", "e", " ", "X">>,
    <<"a", " ", "-", "-", "@", "n", "a", "m", "e", "Y">>,
    <<"b", " ", "-", "-", " ", "@", "n", "a", "m", "e">>,
    <<"S", "E", "L", "E", "C", "T", " ", "2", ";">>,
    <<"S", "E", "T", " ", "@", "x", " ", "=", " ", "1", ";", " ", "-", "-", " ", "@", "n", "a", "m", "e", " ", "V">>
}

NamesInline == {<<"X">>, <<"Z", "z">>}

NextInline ==
    \/ \E line \in InlineLines : Len(file) < MaxKindLines /\ ScanVariable(line)
    \/ \E line \in InlineLines : Len(file) < MaxKindLines /\ ScanSeparator(line)
    \/ \E line \in InlineLines : Len(file) < MaxKindLines /\ ScanName(line)
    \/ \E line \in InlineLines : Len(file) < MaxKindLines /\ ScanContent(line)
    \/ ScanEOF
    \/ MainList
    \/ \E name \in NamesInline : MainFound(name)
    \/ \E name \in NamesInline : MainNotFound(name)

SpecInline == Init /\ [][NextInline]_vars

\* the places of l where a "-- @name X" comment stands
InlineAt(l) == {i \in 1..Len(l) : nameRegexAt(l, i) # <<>>}

\* l carries SQL and, after it, a "-- @name X" comment
InlineAnnotation(l) ==
    /\ InlineAt(l) # {}
    /\ TrimSpace(SubSeq(l, 1, MinOf(InlineAt(l)) - 1)) # <<>>

\* the X of the comment
InlineName(l) == nameRegexAt(l, MinOf(InlineAt(l)))[1]

\* l holds a variable definition, which is looked for before the annotation
HoldsDefinition(l) ==
    \E i \in 1..Len(TrimSpace(l)) : variableRegexAt(TrimSpace(l), i) # <<>>

C31_InlineStep ==
    (ReadsLine /\ InlineAnnotation(Last(file')))
    => /\ UNCHANGED <<queries, sqlLines>>
       /\ (currentQuery # <<>> /\ ~HoldsDefinition(Last(file')))
          => currentQuery' = <<[Name |-> InlineName(Last(file')),
                                SQL |-> currentQuery[1].SQL]>>
       /\ ~HoldsDefinition(Last(file')) => UNCHANGED variables

C31_InlineLinesLeftOut ==
    \A l \in TextLines(queries) : ~InlineAnnotation(l)

-----------------------------------------------------------------------------
(* SpecEmpty: files of at most MaxEmptyLines lines over blank lines, an
   annotation, a separator and a line of SQL *)

EmptyLines == {
    <<"-", "-", "-">>,
    <<"-", "-", " ", "@", "n", "a", "m", "e", " ", "Q">>,
    <<>>,
    <<" ", " ">>,
    <<"S", "E", "L", "E", "C", "T", " ", "1", ";">>
}

NamesEmpty == {<<"Q">>, <<"Z", "z">>}

NextEmpty ==
    \/ \E line \in EmptyLines : Len(file) < MaxEmptyLines /\ ScanSeparator(line)
    \/ \E line \in EmptyLines : Len(file) < MaxEmptyLines /\ ScanName(line)
    \/ \E line \in EmptyLines : Len(file) < MaxEmptyLines /\ ScanContent(line)
    \/ ScanEOF
    \/ MainList
    \/ \E name \in NamesEmpty : MainFound(name)
    \/ \E name \in NamesEmpty : MainNotFound(name)

SpecEmpty == Init /\ [][NextEmpty]_vars

\* the block opened at s has no content line, or only blank ones
BlankBlock(f, s) ==
    \A i \in (s + 1)..(BlockClose(f, s) - 1) :
        LineKind(f[i]) = "content" => TrimSpace(f[i]) = <<>>

\* the separators of f whose block is over: a later separator has closed it,
\* or the end of the file when it has been reached
ClosedBlocks(f, ended) ==
    {s \in Separators(f) : ended \/ BlockClose(f, s) <= Len(f)}

\* C32: of the blocks that separators open, exactly those with an @name
\* annotation give a statement, whatever their content: a block with an
\* annotation and no content line, or only blank ones, gives a statement with
\* the annotated name and the empty text, and a block with content and no
\* annotation gives none.
C32_EmptyTextIsKept ==
    /\ Len(queries) = Cardinality({s \in ClosedBlocks(file, pc # "scan") :
                                      NamesIn(file, s) # {}})
    /\ \A j \in 1..Len(queries) :
          LET s == NthBlock(file, pc # "scan", j)
          IN  /\ queries[j].Name = nameRegex(file[MaxOf(NamesIn(file, s))])[1]
              /\ BlankBlock(file, s) <=> queries[j].SQL = <<>>

\* the first block has a line of SQL and no annotation and gave no
\* statement; the block Q has an annotation and a blank line and gave the
\* statement Q with the empty text
C32_Witness ==
    /\ pc = "parsed"
    /\ file = <<<<"-", "-", "-">>, <<"S", "E", "L", "E", "C", "T", " ", "1", ";">>, <<"-", "-", "-">>, <<"-", "-", " ", "@", "n", "a", "m", "e", " ", "Q">>, <<" ", " ">>>>
    /\ queries = <<[Name |-> <<"Q">>, SQL |-> <<>>]>>
====
